---- MODULE Spec2Model ----
(***************************************************************************)
(* A model of the OCR field-extraction core of the repository:             *)
(*   layout_utils.easyocr_pretty          (TokenClusterer)                 *)
(*   OCRUtils._vision_lines_with_gutter   (TokenClusterer + GutterSplitter)*)
(*   id_parser.parse_id_fields            (FieldAssembler)                 *)
(*   id_parser.tidy_text                  (TextTidier)                     *)
(*   field_extractors.StudentIDFieldExtractor.extract_fields               *)
(*   field_extractors.GenericCardFieldExtractor.extract_fields             *)
(*   docAI.BaseDocAIParser.extract / put  (FieldCanonicalizer)             *)
(*   docAI.BaseDocAIParser._layout_text   (span resolution)                *)
(*   main.py lines 187-193                (page text -> tidy -> parse)     *)
(*                                                                         *)
(* Python strings are modelled as sequences of one-character strings, so   *)
(* that strip, lower, regular-expression matching and joining are computed *)
(* character by character as the code computes them.                       *)
(***************************************************************************)
EXTENDS Integers, Sequences, FiniteSets, TLC

(***************************************************************************)
(* Bounds of the model.                                                    *)
(***************************************************************************)
\* number of (type_, mention_text) pairs fed to put in one extract call
MaxEnts == 3

\* number of OCR results handed to the TokenClusterer
MaxTokens == 3

\* number of Lines of a page handed to the GutterSplitter
MaxLines == 3

\* lines of a document given to parse_id_fields
MaxDocLines == 3

\* lines of a text given to tidy_text
MaxTidyLines == 3

\* lines of a text given to StudentIDFieldExtractor.extract_fields or to
\* GenericCardFieldExtractor.extract_fields
MaxExtractLines == 3

(***************************************************************************)
(* Strings.                                                                *)
(***************************************************************************)
UpperChars == <<"A","B","C","D","E","F","G","H","I","J","K","L","M",
                "N","O","P","Q","R","S","T","U","V","W","X","Y","Z">>

LowerChars == <<"a","b","c","d","e","f","g","h","i","j","k","l","m",
                "n","o","p","q","r","s","t","u","v","w","x","y","z">>

\* the characters str.strip() removes and \s matches
WS == {" ", "\t", "\n", "\r"}

IsUpperCh(c) == \E i \in 1..26 : UpperChars[i] = c

IsLowerCh(c) == \E i \in 1..26 : LowerChars[i] = c

IsAlphaCh(c) == IsUpperCh(c) \/ IsLowerCh(c)

LowerCh(c) == IF IsUpperCh(c) THEN LowerChars[CHOOSE i \in 1..26 : UpperChars[i] = c] ELSE c

UpperCh(c) == IF IsLowerCh(c) THEN UpperChars[CHOOSE i \in 1..26 : LowerChars[i] = c] ELSE c

\* str.lower()
LowerStr(s) == [i \in 1..Len(s) |-> LowerCh(s[i])]

\* str.upper()
UpperStr(s) == [i \in 1..Len(s) |-> UpperCh(s[i])]

RECURSIVE LStrip(_)
LStrip(s) == IF s # <<>> /\ Head(s) \in WS THEN LStrip(Tail(s)) ELSE s

RECURSIVE RStrip(_)
RStrip(s) == IF s # <<>> /\ s[Len(s)] \in WS THEN RStrip(SubSeq(s, 1, Len(s) - 1)) ELSE s

\* str.strip()
Strip(s) == RStrip(LStrip(s))

\* str.replace("_", " ")
ReplaceUnderscore(s) == [i \in 1..Len(s) |-> IF s[i] = "_" THEN " " ELSE s[i]]

\* re.sub(r"\s+", " ", s): every maximal run of whitespace becomes one space
RECURSIVE CollapseWs(_)
CollapseWs(s) ==
    IF s = <<>> THEN <<>>
    ELSE IF Head(s) \in WS
         THEN <<" ">> \o CollapseWs(LStrip(s))
         ELSE <<Head(s)>> \o CollapseWs(Tail(s))

\* sub in s (substring test)
Contains(sub, s) ==
    \E i \in 0..(Len(s) - Len(sub)) : SubSeq(s, i + 1, i + Len(sub)) = sub

\* " ".join(parts)
RECURSIVE JoinSp(_)
JoinSp(parts) ==
    IF parts = <<>> THEN <<>>
    ELSE IF Len(parts) = 1 THEN parts[1]
    ELSE parts[1] \o <<" ">> \o JoinSp(Tail(parts))

\* the set of elements of a sequence
Range(s) == {s[i] : i \in 1..Len(s)}

(***************************************************************************)
(* Python's re on the strings of the model. A pattern is a tree of nodes;  *)
(* ReRun is the backtracking matcher: it matches the nodes of todo one     *)
(* after the other from position i of s and gives the first way to do so,  *)
(* trying alternatives left to right and repetitions longest first.        *)
(***************************************************************************)
Digits == {"0","1","2","3","4","5","6","7","8","9"}

Letters == Range(UpperChars) \cup Range(LowerChars)

\* \w
WordChars == Letters \cup Digits \cup {"_"}

\* pattern nodes
ReSet(cs) == [k |-> "set", cs |-> cs, neg |-> FALSE]

ReNot(cs) == [k |-> "set", cs |-> cs, neg |-> TRUE]

ReCh(c) == ReSet({c})

ReCat(xs) == [k |-> "cat", xs |-> xs]

ReAlt(xs) == [k |-> "alt", xs |-> xs]

\* x{lo,hi}, greedy; hi = -1 is no upper limit
ReRep(x, lo, hi) == [k |-> "rep", x |-> x, lo |-> lo, hi |-> hi]

ReStar(x) == ReRep(x, 0, -1)

RePlus(x) == ReRep(x, 1, -1)

ReOpt(x) == ReRep(x, 0, 1)

\* capturing group number n
ReGrp(n, x) == [k |-> "grp", n |-> n, x |-> x]

\* ^, $, \b
ReBol == [k |-> "bol"]

ReEol == [k |-> "eol"]

ReWb == [k |-> "wb"]

\* (?=x) and (?!x)
ReAhead(x) == [k |-> "la", x |-> x, neg |-> FALSE]

ReNotAhead(x) == [k |-> "la", x |-> x, neg |-> TRUE]

\* a literal string
ReLit(str) == ReCat([i \in 1..Len(str) |-> ReCh(str[i])])

\* \s* and \s+ and the dot
ReWs0 == ReStar(ReSet(WS))

ReWs1 == RePlus(ReSet(WS))

ReDot == ReNot({"\n"})

\* no group has matched
NoGroups == [n \in 1..3 |-> <<0, 0>>]

\* does character c match the set node x (ic: re.IGNORECASE)
ReInSet(c, x, ic) ==
    (c \in x.cs \/ (ic /\ (LowerCh(c) \in x.cs \/ UpperCh(c) \in x.cs))) # x.neg

\* \b at position i of s
ReAtWb(s, i) ==
    LET before == i > 1 /\ s[i - 1] \in WordChars
        after  == i <= Len(s) /\ s[i] \in WordChars
    IN  before # after

\* the element of a set of one element (used to name a value computed once)
The(S) == CHOOSE v \in S : TRUE

NoMatch == [ok |-> FALSE, b |-> 0, e |-> 0, g |-> NoGroups]

\* how many characters from position i of s on match the set node x, at most
\* hi of them (hi = -1: no limit)
ReRunLen(x, hi, s, i, ic) ==
    LET ns == {n \in 0..(Len(s) + 1 - i) :
                  /\ hi < 0 \/ n <= hi
                  /\ \A j \in i..(i + n - 1) : ReInSet(s[j], x, ic)}
    IN  CHOOSE n \in ns : \A o \in ns : n >= o

RECURSIVE ReRun(_, _, _, _, _)
ReRun(todo, s, i, g, ic) ==
    IF todo = <<>> THEN [ok |-> TRUE, b |-> 0, e |-> i, g |-> g]
    ELSE LET x == Head(todo)
             rest == Tail(todo)
         IN  CASE x.k = "set" ->
                    IF i <= Len(s) /\ ReInSet(s[i], x, ic)
                    THEN ReRun(rest, s, i + 1, g, ic) ELSE NoMatch
               [] x.k = "cat" -> ReRun(x.xs \o rest, s, i, g, ic)
               [] x.k = "alt" ->
                    IF x.xs = <<>> THEN NoMatch
                    ELSE The({IF r.ok THEN r
                              ELSE ReRun(<<ReAlt(Tail(x.xs))>> \o rest, s, i, g, ic) :
                              r \in {ReRun(<<Head(x.xs)>> \o rest, s, i, g, ic)}})
               [] x.k = "rep" /\ x.x.k = "set" ->
                    \* a repeated character set: the longest run first, then shorter
                    LET most == ReRunLen(x.x, x.hi, s, i, ic)
                        least == IF x.lo > 0 THEN x.lo ELSE 0
                        Longest(ts) == CHOOSE t \in ts : \A u \in ts : t.n >= u.n
                    IN  The({IF ts = {} THEN NoMatch ELSE Longest(ts).r :
                             ts \in {{t \in {[n |-> n, r |-> ReRun(rest, s, i + n, g, ic)] :
                                                n \in least..most} : t.r.ok}}})
               [] x.k = "rep" /\ x.x.k # "set" ->
                    LET again == ReRep(x.x, IF x.lo > 0 THEN x.lo - 1 ELSE 0,
                                       IF x.hi > 0 THEN x.hi - 1 ELSE x.hi)
                        more == IF x.hi = 0 THEN NoMatch
                                ELSE ReRun(<<x.x, [k |-> "adv", from |-> i], again>> \o rest,
                                           s, i, g, ic)
                    IN  The({IF r.ok THEN r
                             ELSE IF x.lo <= 0 THEN ReRun(rest, s, i, g, ic) ELSE NoMatch :
                             r \in {more}})
               [] x.k = "adv" -> IF i > x.from THEN ReRun(rest, s, i, g, ic) ELSE NoMatch
               [] x.k = "grp" ->
                    ReRun(<<x.x, [k |-> "end", n |-> x.n, from |-> i]>> \o rest, s, i, g, ic)
               [] x.k = "end" -> ReRun(rest, s, i, [g EXCEPT ![x.n] = <<x.from, i>>], ic)
               [] x.k = "bol" -> IF i = 1 THEN ReRun(rest, s, i, g, ic) ELSE NoMatch
               [] x.k = "eol" -> IF i = Len(s) + 1 THEN ReRun(rest, s, i, g, ic) ELSE NoMatch
               [] x.k = "wb"  -> IF ReAtWb(s, i) THEN ReRun(rest, s, i, g, ic) ELSE NoMatch
               [] x.k = "la"  ->
                    IF ReRun(<<x.x>>, s, i, g, ic).ok # x.neg
                    THEN ReRun(rest, s, i, g, ic) ELSE NoMatch

\* the match of x on s starting at position i, if any: [ok, b, e, g]
ReMatchAt(x, s, i, ic) == [ReRun(<<x>>, s, i, NoGroups, ic) EXCEPT !.b = i]

\* re.match(x, s)
ReMatch(x, s, ic) == ReMatchAt(x, s, 1, ic)

\* re.search(x, s): the leftmost match
ReSearch(x, s, ic) ==
    LET Leftmost(ms) == CHOOSE m \in ms : \A o \in ms : m.b <= o.b
    IN  The({IF ms = {} THEN NoMatch ELSE Leftmost(ms) :
             ms \in {{m \in {ReMatchAt(x, s, i, ic) : i \in 1..(Len(s) + 1)} : m.ok}}})

\* re.sub(x, rep, s) from position i on, for a pattern that matches no empty string
RECURSIVE ReSubFrom(_, _, _, _, _)
ReSubFrom(x, rep, s, i, ic) ==
    IF i > Len(s) THEN <<>>
    ELSE The({IF m.ok /\ m.e > i THEN rep \o ReSubFrom(x, rep, s, m.e, ic)
              ELSE <<s[i]>> \o ReSubFrom(x, rep, s, i + 1, ic) :
              m \in {ReMatchAt(x, s, i, ic)}})

ReSub(x, rep, s, ic) == ReSubFrom(x, rep, s, 1, ic)

\* str.replace(old, new) from position i on
RECURSIVE ReplaceFrom(_, _, _, _)
ReplaceFrom(s, old, new, i) ==
    IF i > Len(s) THEN <<>>
    ELSE IF i + Len(old) - 1 <= Len(s) /\ SubSeq(s, i, i + Len(old) - 1) = old
         THEN new \o ReplaceFrom(s, old, new, i + Len(old))
         ELSE <<s[i]>> \o ReplaceFrom(s, old, new, i + 1)

\* s[a:b] for positions of the model: the characters a .. b-1
Slice(s, a, b) == SubSeq(s, a, b - 1)

(***************************************************************************)
(* FieldCanonicalizer: docAI.py                                            *)
(***************************************************************************)
\* fields: the canonical part of extract's dict; extras: its '_extras' entry;
\* ents: the (type_, mention_text) pairs the entity loop has consumed so far
VARIABLES fields, extras, ents

putVars == <<fields, extras, ents>>

\* easyocr_pretty: results (the argument), words, med2 (twice the median
\* height), lines, cur, last_y (doubled), ci (position of the loop over
\* words), cpc (position in the function), pretty (the returned text)
VARIABLES results, words, med2, lines, cur, last_y, ci, cpc, pretty

clVars == <<results, words, med2, lines, cur, last_y, ci, cpc, pretty>>

\* _vision_lines_with_gutter after the grouping loop: lines (shared with the
\* clusterer), gutter4 (four times the gutter x), gi (position of the loop
\* over lines), out_lines, carry_label, gpc (position in the function),
\* vtext (the returned text)
VARIABLES gutter4, gi, out_lines, carry_label, gpc, vtext

guVars == <<gutter4, gi, out_lines, carry_label, gpc, vtext>>

\* parse_id_fields: ptext (the argument, as text.splitlines()), plines
\* (lines), pout (out), pending (each key with the index in lines of its
\* label line), values (each line with its index in lines), pidx (i),
\* clean_values, vi, pk (position of the loop over pending), ppc (position
\* in the function), taken (history: for every value the loop over pending
\* stored, the key, the index of the label line and of the value line)
VARIABLES ptext, plines, pout, pending, values, pidx, clean_values, vi, pk, ppc, taken

paVars == <<ptext, plines, pout, pending, values, pidx, clean_values, vi, pk, ppc, taken>>

\* tidy_text: ttext (the argument), tlines (lines), tout (out), ti (i, counted
\* from 1), tpc (position in the function), tidied (the returned text)
VARIABLES ttext, tlines, tout, ti, tpc, tidied

tiVars == <<ttext, tlines, tout, ti, tpc, tidied>>

\* StudentIDFieldExtractor.extract_fields: xtext is the text given, as its list of
\* lines; xlines, merged_caps, xout, xi are lines, merged_caps, out, i of the
\* code; xpc is the position in the function. In
\* GenericCardFieldExtractor.extract_fields xout, xlines and xi are fields, lines
\* and i, and gfields holds the entries of fields that its own walk added (their
\* keys are texts of the card)
VARIABLES xtext, xlines, merged_caps, xout, xi, xpc, gfields

exVars == <<xtext, xlines, merged_caps, xout, xi, xpc, gfields>>

\* BaseDocAIParser._layout_text: dtext is document.text, layout tells whether the
\* layout and its text anchor are there, segs are the anchor's text segments;
\* lparts is parts of the code, si the position of the loop over segs, span the
\* string returned; lpc is the position in the function
VARIABLES dtext, layout, segs, lparts, si, lpc, span

laVars == <<dtext, layout, segs, lparts, si, lpc, span>>

vars == <<putVars, clVars, guVars, paVars, tiVars, exVars, laVars>>

\* docAI._norm: strip, lower-case, '_' -> ' ', collapse whitespace runs
_norm(s) == CollapseWs(ReplaceUnderscore(LowerStr(Strip(s))))

\* docAI.STUDENT_ID_FIELD_MAP, in source order
STUDENT_ID_FIELD_MAP == <<
    << <<"s","t","u","d","e","n","t","_","n","a","m","e">>, "name" >>,
    << <<"s","t","u","d","e","n","t"," ","i","d">>, "adm_no" >>,
    << <<"s","t","u","d","e","n","t","_","i","d">>, "adm_no" >>,
    << <<"d","a","t","e","_","o","f","_","b","i","r","t","h">>, "dob" >>,
    << <<"u","n","i","v","e","r","s","i","t","y","_","n","a","m","e">>, "school" >>,
    << <<"m","a","j","o","r">>, "major" >>,
    << <<"s","c","h","o","o","l","_","y","e","a","r">>, "school_year" >>,
    << <<"b","a","n","k","_","n","a","m","e">>, "bank_name" >>,
    << <<"b","a","n","k","_","c","a","r","d","_","n","u","m","b","e","r">>, "bank_card_number" >>,
    << <<"b","a","n","k","_","c","a","r","d","_","v","a","l","i","d","_","f","r","o","m">>, "bank_card_valid_from" >>,
    << <<"b","a","n","k","_","c","a","r","d","_","e","x","p","i","r","y">>, "bank_card_expiry" >> >>

\* the value no key maps to (dict.get returns None)
None == "None"

\* StudentIdParser.__init__: norm_field_map = {_norm(k): v for k, v in ...}
norm_field_map ==
    [i \in 1..Len(STUDENT_ID_FIELD_MAP) |->
        <<_norm(STUDENT_ID_FIELD_MAP[i][1]), STUDENT_ID_FIELD_MAP[i][2]>>]

\* norm_field_map.get(k): of equal normalised keys the dict keeps the last
NormFieldMapGet(k) ==
    LET hits == {i \in 1..Len(norm_field_map) : norm_field_map[i][1] = k}
    IN  IF hits = {} THEN None
        ELSE norm_field_map[CHOOSE i \in hits : \A j \in hits : j <= i][2]

\* a canonical value: a single string, or a list of strings
Single(s) == [isList |-> FALSE, items |-> <<s>>]

ListOf(l) == [isList |-> TRUE, items |-> l]

\* Python truthiness of fields.get(canon): absent, '' and [] are falsy
Truthy(f, canon) ==
    /\ canon \in DOMAIN f
    /\ IF f[canon].isList THEN f[canon].items # <<>> ELSE f[canon].items[1] # <<>>

\* fields[canon] = x
SetKey(f, canon, x) == [c \in DOMAIN f \cup {canon} |-> IF c = canon THEN x ELSE f[c]]

\* the merge without the test for a value already in the list
MutMergeNoDedup(f, canon, val) ==
    IF ~Truthy(f, canon) THEN SetKey(f, canon, Single(val))
    ELSE IF f[canon].isList
         THEN SetKey(f, canon, ListOf(Append(f[canon].items, val)))
         ELSE SetKey(f, canon, ListOf(<<f[canon].items[1], val>>))

\* the merge of put on a canonical hit (docAI.py lines 113-123)
Merge(f, canon, val) ==
    IF ~Truthy(f, canon) THEN SetKey(f, canon, Single(val))
    ELSE IF f[canon].isList
         THEN IF val \in Range(f[canon].items) THEN f
              ELSE SetKey(f, canon, ListOf(Append(f[canon].items, val)))
         ELSE IF val # f[canon].items[1]
              THEN SetKey(f, canon, ListOf(<<f[canon].items[1], val>>))
              ELSE f

\* put with a miss stored under the label among the canonical fields
MutPutMissIntoFields(st, k_raw, v) ==
    LET k     == _norm(k_raw)
        canon == NormFieldMapGet(k)
        val   == Strip(v)
    IN  IF k = <<>> \/ v = <<>> THEN st
        ELSE IF canon = None
             THEN [fields |-> SetKey(st.fields, "name", Single(val)),
                   extras |-> SetKey(st.extras, k, val)]
             ELSE [fields |-> Merge(st.fields, canon, val), extras |-> st.extras]

\* put(k_raw, v) as a function of the field map: st = [fields, extras]
put(st, k_raw, v) ==
    LET k     == _norm(k_raw)
        canon == NormFieldMapGet(k)
        val   == Strip(v)
    IN  IF k = <<>> \/ v = <<>> THEN st
        ELSE IF canon = None
             THEN [fields |-> st.fields, extras |-> SetKey(st.extras, k, val)]
             ELSE [fields |-> Merge(st.fields, canon, val), extras |-> st.extras]

\* one iteration of the entity loop of extract: put is called for an entity
\* (or a nested property) whose type_ and mention_text are both non-empty
EntityStep(st, e) ==
    IF e[1] # <<>> /\ e[2] # <<>> THEN put(st, e[1], e[2]) ELSE st

\* the type_ values the entity source may deliver
TypeLabels == {
    <<"b","a","n","k","_","n","a","m","e">>,
    <<"B","a","n","k"," "," ","N","a","m","e">>,
    <<"f","o","o">>,
    <<"n","a","m","e">>,
    <<>> }

\* the mention_text values the entity source may deliver
MentionTexts == {
    <<>>,
    <<" ">>,
    <<"B","a","n","k"," ","A">>,
    <<"B","a","n","k"," ","B"," ">> }

EmptyMap == [c \in {} |-> 0]

InitPut ==
    /\ fields = EmptyMap
    /\ extras = EmptyMap
    /\ ents = <<>>

\* the FieldCanonicalizer is not running
IdlePut == InitPut

\* extract's loop body for the next entity of the document
ExtractEntity ==
    /\ Len(ents) < MaxEnts
    /\ \E t \in TypeLabels, m \in MentionTexts :
         LET st == EntityStep([fields |-> fields, extras |-> extras], <<t, m>>)
         IN  /\ fields' = st.fields
             /\ extras' = st.extras
             /\ ents' = Append(ents, <<t, m>>)
    /\ UNCHANGED <<clVars, guVars, paVars, tiVars, exVars, laVars>>

\* the type_ values of a student card's entities, in several spellings
StudentLabels == {
    <<"s","t","u","d","e","n","t","_","n","a","m","e">>,
    <<"S","t","u","d","e","n","t"," "," ","N","a","m","e">>,
    <<"S","T","U","D","E","N","T","_","N","A","M","E"," ">>,
    <<"s","t","u","d","e","n","t","_","n","a","m","e","_">>,
    <<"s","t","u","d","e","n","t","_","i","d">>,
    <<"_","s","t","u","d","e","n","t","_","i","d">> }

\* the mention_text values of a student card's entities
StudentTexts == {
    <<"J","a","n","e"," ","D","o","e">>,
    <<"A","1","2","3">> }

\* extract's loop body for the next entity of a student card
ExtractStudentEntity ==
    /\ Len(ents) < MaxEnts
    /\ \E t \in StudentLabels, m \in StudentTexts :
         LET st == EntityStep([fields |-> fields, extras |-> extras], <<t, m>>)
         IN  /\ fields' = st.fields
             /\ extras' = st.extras
             /\ ents' = Append(ents, <<t, m>>)
    /\ UNCHANGED <<clVars, guVars, paVars, tiVars, exVars, laVars>>

(***************************************************************************)
(* TokenClusterer: layout_utils.easyocr_pretty (the same grouping loop is  *)
(* lines 76-87 of OCRUtils._vision_lines_with_gutter).                     *)
(* Vertical centres are kept doubled (yy = y1 + y2 = 2 * y) and the median *)
(* height doubled (med2), so that every comparison is on integers:         *)
(*   abs(y - last_y) <= 0.6 * med   <=>   5 * |yy - last_yy| <= 3 * med2   *)
(***************************************************************************)
\* stable insertion of x into the sorted sequence s: after every element
\* that is not greater (list.sort is stable)
RECURSIVE InsertBy(_, _, _)
InsertBy(Less(_, _), x, s) ==
    IF s = <<>> THEN <<x>>
    ELSE IF Less(x, Head(s)) THEN <<x>> \o s
    ELSE <<Head(s)>> \o InsertBy(Less, x, Tail(s))

\* list.sort(key=...): stable sort of s by the strict order Less on keys
RECURSIVE SortBy(_, _)
SortBy(Less(_, _), s) ==
    IF s = <<>> THEN <<>>
    ELSE InsertBy(Less, s[Len(s)], SortBy(Less, SubSeq(s, 1, Len(s) - 1)))

IntLess(a, b) == a < b

\* 2 * np.median(hs) for a non-empty list of integers hs
Median2(hs) ==
    LET srt == SortBy(IntLess, hs)
        n   == Len(srt)
    IN  IF n % 2 = 1 THEN 2 * srt[(n + 1) \div 2]
        ELSE srt[n \div 2] + srt[n \div 2 + 1]

Abs(x) == IF x < 0 THEN -x ELSE x

\* the word record of one OCR result (lines 11-13): x = min xs,
\* y = (y1 + y2) / 2 kept doubled, h = (y2 - y1) or 1.0
WordOf(r) ==
    [id |-> r.id, t |-> r.t, x |-> r.x1, yy |-> r.y1 + r.y2,
     h |-> IF r.y2 - r.y1 = 0 THEN 1 ELSE r.y2 - r.y1]

\* words.sort(key=lambda w: (w["y"], w["x"]))
YXLess(a, b) == a.yy < b.yy \/ (a.yy = b.yy /\ a.x < b.x)

\* line.sort(key=lambda w: w["x"])
XLess(a, b) == a.x < b.x

\* the words of easyocr_pretty had it kept the results whose text is blank
MutBuildWordsKeepBlank(rs) == [i \in 1..Len(rs) |-> WordOf(rs[i])]

\* lines 8-13: the words of the results whose text is not blank, in order
RECURSIVE BuildWords(_)
BuildWords(rs) ==
    IF rs = <<>> THEN <<>>
    ELSE (IF Strip(Head(rs).t) = <<>> THEN <<>> ELSE <<WordOf(Head(rs))>>)
         \o BuildWords(Tail(rs))

\* line 15: med = median of the heights if words else 1.0 (doubled)
Med2Of(ws) == IF ws = <<>> THEN 2 ELSE Median2([i \in 1..Len(ws) |-> ws[i].h])

\* line 19: abs(w["y"] - last_y) <= tol with tol = med * 0.6
MutWithinTol(yy, lastyy, m2) == 5 * Abs(yy - lastyy) <= 13 * m2

WithinTol(yy, lastyy, m2) == 5 * Abs(yy - lastyy) <= 3 * m2

NoY == -1

\* the boxes an OCR engine may report: integer corners, x1 <= x2, y1 <= y2
Boxes ==
    { [x1 |-> x, x2 |-> x + 1, y1 |-> y, y2 |-> y + h] :
        x \in 0..1, y \in 0..2, h \in {0, 2} }

TokA == <<"a">>

TokBlank == <<" ">>

\* the results an OCR engine may report: a text and a box each
ResultSet ==
    { [t |-> TokA, x1 |-> b.x1, x2 |-> b.x2, y1 |-> b.y1, y2 |-> b.y2] : b \in Boxes }
    \cup { [t |-> TokBlank, x1 |-> 0, x2 |-> 1, y1 |-> 1, y2 |-> 3] }

\* the result lists of at most MaxTokens results, each result tagged with its
\* position (two equal results are still two tokens)
ResultLists ==
    UNION { { [i \in 1..n |->
                 [id |-> i, t |-> f[i].t, x1 |-> f[i].x1, x2 |-> f[i].x2,
                  y1 |-> f[i].y1, y2 |-> f[i].y2]] : f \in [1..n -> ResultSet] }
            : n \in 0..MaxTokens }

InitCluster ==
    /\ results \in ResultLists
    /\ words = <<>>
    /\ med2 = 2
    /\ lines = <<>>
    /\ cur = <<>>
    /\ last_y = NoY
    /\ ci = 1
    /\ cpc = "start"
    /\ pretty = <<>>

\* the TokenClusterer is not running
IdleCluster ==
    /\ results = <<>>
    /\ words = <<>>
    /\ med2 = 2
    /\ lines = <<>>
    /\ cur = <<>>
    /\ last_y = NoY
    /\ ci = 1
    /\ cpc = "idle"
    /\ pretty = <<>>

\* lines 5-17: empty results return ""; otherwise build the words, sort them
\* by (y, x), take the median height
Prepare ==
    /\ cpc = "start"
    /\ IF results = <<>>
       THEN /\ cpc' = "done"
            /\ UNCHANGED <<words, med2>>
       ELSE /\ words' = SortBy(YXLess, BuildWords(results))
            /\ med2' = Med2Of(BuildWords(results))
            /\ cpc' = "loop"
    /\ UNCHANGED <<results, lines, cur, last_y, ci, pretty, putVars, guVars, paVars, tiVars, exVars, laVars>>

\* lines 18-23: one iteration of the grouping loop
ClusterStep ==
    /\ cpc = "loop"
    /\ ci <= Len(words)
    /\ LET w == words[ci]
       IN  /\ IF last_y = NoY \/ WithinTol(w.yy, last_y, med2)
              THEN /\ cur' = Append(cur, w)
                   /\ lines' = lines
              ELSE /\ lines' = Append(lines, cur)
                   /\ cur' = <<w>>
           /\ last_y' = w.yy
    /\ ci' = ci + 1
    /\ UNCHANGED <<results, words, med2, cpc, pretty, putVars, guVars, paVars, tiVars, exVars, laVars>>

\* lines 24-25: if cur: lines.append(cur)
MutFlushNothing ==
    /\ cpc = "loop"
    /\ ci > Len(words)
    /\ cpc' = "emit"
    /\ UNCHANGED <<results, words, med2, lines, cur, last_y, ci, pretty, putVars, guVars, paVars, tiVars, exVars, laVars>>

Flush ==
    /\ cpc = "loop"
    /\ ci > Len(words)
    /\ lines' = IF cur # <<>> THEN Append(lines, cur) ELSE lines
    /\ cpc' = "emit"
    /\ UNCHANGED <<results, words, med2, cur, last_y, ci, pretty, putVars, guVars, paVars, tiVars, exVars, laVars>>

\* "\n".join(parts)
RECURSIVE JoinNl(_)
JoinNl(parts) ==
    IF parts = <<>> THEN <<>>
    ELSE IF Len(parts) = 1 THEN parts[1]
    ELSE parts[1] \o <<"\n">> \o JoinNl(Tail(parts))

\* the text of a line of words: " ".join(w["t"] for w in line)
LineText(line) == JoinSp([i \in 1..Len(line) |-> line[i].t])

\* lines 26-30: sort every line left to right, join the texts
Emit ==
    /\ cpc = "emit"
    /\ lines' = [i \in 1..Len(lines) |-> SortBy(XLess, lines[i])]
    /\ pretty' = JoinNl([i \in 1..Len(lines) |-> LineText(SortBy(XLess, lines[i]))])
    /\ cpc' = "done"
    /\ UNCHANGED <<results, words, med2, cur, last_y, ci, putVars, guVars, paVars, tiVars, exVars, laVars>>

(***************************************************************************)
(* GutterSplitter: OCRUtils._vision_lines_with_gutter, lines 89-154.       *)
(* A word is [t, x1, x2] (y and h are not read after the grouping loop).   *)
(* The gutter is kept multiplied by four (a median of centres (x1+x2)/2    *)
(* may be a mean of two of them):  x2 <= gutter  <=>  4 * x2 <= gutter4.   *)
(***************************************************************************)
Colon == <<":">>

\* the x-centre of a word, doubled: (x1 + x2) / 2
Centre2(w) == w.x1 + w.x2

\* 4 * np.median(cs) for a non-empty list cs of doubled centres
Median4(cs) ==
    LET srt == SortBy(IntLess, cs)
        n   == Len(srt)
    IN  IF n % 2 = 1 THEN 2 * srt[(n + 1) \div 2]
        ELSE srt[n \div 2] + srt[n \div 2 + 1]

\* all the words of the lines, line after line
RECURSIVE Flatten(_)
Flatten(ls) == IF ls = <<>> THEN <<>> ELSE Head(ls) \o Flatten(Tail(ls))

\* lines 69-70: the doubled centres of the words whose text is exactly ':'
ColonX(ls) ==
    LET IsColon(w) == w.t = Colon
        cw == SelectSeq(Flatten(ls), IsColon)
    IN  [i \in 1..Len(cw) |-> Centre2(cw[i])]

\* lines 93-97: per line, xs[len(xs)//2] of the sorted centres
Mids(ls) ==
    [i \in 1..Len(ls) |->
        LET xs == SortBy(IntLess, [k \in 1..Len(ls[i]) |-> Centre2(ls[i][k])])
        IN  xs[Len(xs) \div 2 + 1]]

NoGutter == -1

\* lines 90-98: median colon x, else the median of the per-line medians,
\* else None
GutterOf(ls) ==
    IF ColonX(ls) # <<>> THEN Median4(ColonX(ls))
    ELSE IF Mids(ls) # <<>> THEN Median4(Mids(ls))
    ELSE NoGutter

S_IDENTIFICATION == <<"I","D","E","N","T","I","F","I","C","A","T","I","O","N">>

S_ID_CARD == <<"I","D"," ","C","A","R","D">>

\* lines 106 and 135: the text reads as an identification phrase
IsIdPhrase(s) == Contains(S_IDENTIFICATION, UpperStr(s)) \/ Contains(S_ID_CARD, UpperStr(s))

\* lines 103-109: is_header
is_header(line_text) ==
    LET s == Strip(line_text)
        letters == {i \in 1..Len(s) : IsAlphaCh(s[i])}
        uppers  == {i \in letters : IsUpperCh(s[i])}
    IN  \/ IsIdPhrase(s)
        \/ letters # {} /\ 5 * Cardinality(uppers) >= 4 * Cardinality(letters)

\* ln.sort(key=lambda w: w["x1"])
X1Less(a, b) == a.x1 < b.x1

\* " ".join(w["t"] for w in ws).strip()
WordsText(ws) == Strip(JoinSp([i \in 1..Len(ws) |-> ws[i].t]))

\* line 123: the words wholly at or left of the gutter
LeftOf(ln, g4) == LET Keep(w) == 4 * w.x2 <= g4 IN SelectSeq(ln, Keep)

\* the words that reach over the gutter to the right
MutRightOfReaching(ln, g4) == LET Keep(w) == 4 * w.x2 > g4 IN SelectSeq(ln, Keep)

\* line 124: the words wholly right of the gutter
RightOf(ln, g4) == LET Keep(w) == 4 * w.x1 > g4 IN SelectSeq(ln, Keep)

\* lines 126-131: the text of a side; a side reading exactly ':' is empty
SideText(ws) == IF WordsText(ws) = Colon THEN <<>> ELSE WordsText(ws)

SepColon == <<" ", ":", " ">>

\* lines 112-152: the body of the loop over lines for the line ln0, with
\* gutter g4 and carried label carry: the lines it appends and the new carry
MutSplitStepKeepCarry(ln0, g4, carry) ==
    LET ln    == SortBy(X1Less, ln0)
        raw   == WordsText(ln)
        left_text  == SideText(LeftOf(ln, g4))
        right_text == SideText(RightOf(ln, g4))
    IN  IF is_header(raw) THEN [emit |-> <<raw>>, carry |-> <<>>]
        ELSE IF left_text # <<>> /\ right_text # <<>>
        THEN [emit |-> <<left_text \o SepColon \o right_text>>, carry |-> <<>>]
        ELSE IF left_text # <<>>
        THEN [emit |-> <<left_text>>, carry |-> left_text]
        ELSE IF right_text # <<>>
        THEN IF carry # <<>>
             THEN [emit |-> <<carry \o SepColon \o right_text>>, carry |-> carry]
             ELSE [emit |-> <<right_text>>, carry |-> carry]
        ELSE [emit |-> <<raw>>, carry |-> carry]

SplitStep(ln0, g4, carry) ==
    LET ln    == SortBy(X1Less, ln0)
        raw   == WordsText(ln)
        left_text  == SideText(LeftOf(ln, g4))
        right_text == SideText(RightOf(ln, g4))
    IN  IF is_header(raw) THEN [emit |-> <<raw>>, carry |-> <<>>]
        ELSE IF g4 = NoGutter THEN [emit |-> <<raw>>, carry |-> carry]
        ELSE IF left_text # <<>> /\ right_text # <<>>
        THEN [emit |-> IF IsIdPhrase(right_text)
                       THEN <<left_text \o <<" ">> \o right_text>>
                       ELSE <<left_text \o SepColon \o right_text>>,
              carry |-> <<>>]
        ELSE IF left_text # <<>>
        THEN [emit |-> <<left_text>>, carry |-> left_text]
        ELSE IF right_text # <<>>
        THEN IF carry # <<>>
             THEN [emit |-> <<carry \o SepColon \o right_text>>, carry |-> <<>>]
             ELSE [emit |-> <<right_text>>, carry |-> carry]
        ELSE [emit |-> IF raw # <<>> THEN <<raw>> ELSE <<>>, carry |-> carry]

\* the words of the documents of the model: text and horizontal extent
W_Name == [t |-> <<"N","a","m","e">>, x1 |-> 0, x2 |-> 2]

W_NAME == [t |-> <<"N","A","M","E">>, x1 |-> 0, x2 |-> 2]

W_Id == [t |-> <<"I","d">>, x1 |-> 0, x2 |-> 2]

W_Card == [t |-> <<"C","a","r","d">>, x1 |-> 6, x2 |-> 8]

W_Colon == [t |-> Colon, x1 |-> 3, x2 |-> 5]

W_ColonR == [t |-> Colon, x1 |-> 6, x2 |-> 6]

W_Mid == [t |-> <<"M","i","d">>, x1 |-> 3, x2 |-> 7]

W_John == [t |-> <<"J","o","h","n">>, x1 |-> 6, x2 |-> 8]

\* the Lines the grouping loop may hand over (any non-empty list of words is
\* a Line of some page: the loop orders a Line by (y, x1), not by x1)
LineSet == {
    <<W_Name>>,
    <<W_John>>,
    <<W_Name, W_John>>,
    <<W_John, W_Name>>,
    <<W_Name, W_Colon, W_John>>,
    <<W_Name, W_ColonR, W_John>>,
    <<W_Name, W_Mid, W_John>>,
    <<W_Mid>>,
    <<W_Colon>>,
    <<W_Name, W_Colon>>,
    <<W_Colon, W_John>>,
    <<W_NAME>>,
    <<W_Id, W_Card>> }

\* the pages of at most MaxLines Lines
Pages == UNION { [1..n -> LineSet] : n \in 0..MaxLines }

InitGutter ==
    /\ lines \in Pages
    /\ gutter4 = NoGutter
    /\ gi = 1
    /\ out_lines = <<>>
    /\ carry_label = <<>>
    /\ gpc = "gutter"
    /\ vtext = <<>>

\* the GutterSplitter is not running
IdleGutter ==
    /\ gutter4 = NoGutter
    /\ gi = 1
    /\ out_lines = <<>>
    /\ carry_label = <<>>
    /\ gpc = "idle"
    /\ vtext = <<>>

\* lines 72-73 and 89-101: no words return ""; otherwise find the gutter
FindGutter ==
    /\ gpc = "gutter"
    /\ IF lines = <<>>
       THEN gpc' = "done" /\ gutter4' = gutter4
       ELSE gpc' = "loop" /\ gutter4' = GutterOf(lines)
    /\ UNCHANGED <<gi, out_lines, carry_label, vtext, lines>>
    /\ UNCHANGED <<results, words, med2, cur, last_y, ci, cpc, pretty, putVars, paVars, tiVars, exVars, laVars>>

\* lines 111-152: one iteration of the loop over lines
SplitLine ==
    /\ gpc = "loop"
    /\ gi <= Len(lines)
    /\ LET r == SplitStep(lines[gi], gutter4, carry_label)
       IN  /\ out_lines' = out_lines \o r.emit
           /\ carry_label' = r.carry
    /\ gi' = gi + 1
    /\ UNCHANGED <<gutter4, gpc, vtext, lines>>
    /\ UNCHANGED <<results, words, med2, cur, last_y, ci, cpc, pretty, putVars, paVars, tiVars, exVars, laVars>>

\* line 154: return "\n".join(out_lines)
ReturnText ==
    /\ gpc = "loop"
    /\ gi > Len(lines)
    /\ vtext' = JoinNl(out_lines)
    /\ gpc' = "done"
    /\ UNCHANGED <<gutter4, gi, out_lines, carry_label, lines>>
    /\ UNCHANGED <<results, words, med2, cur, last_y, ci, cpc, pretty, putVars, paVars, tiVars, exVars, laVars>>

(***************************************************************************)
(* FieldAssembler: id_parser.py                                            *)
(***************************************************************************)
\* lines 6-17: the keys and their patterns
LABEL_MAP == <<
    [key |-> "name", pat |-> ReAlt(<<
        ReLit(<<"n","a","m","e">>),
        ReCat(<<ReLit(<<"s","t","u","d","e","n","t">>), ReWs0, ReLit(<<"n","a","m","e">>)>>)>>)],
    [key |-> "dob", pat |-> ReCat(<<ReCh("d"), ReAlt(<<
        ReCat(<<ReOpt(ReCh(".")), ReWs0, ReCh("o"), ReOpt(ReCh(".")), ReWs0, ReCh("b"),
                ReOpt(ReCh("."))>>),
        ReCat(<<ReLit(<<"a","t","e">>), ReWs0, ReLit(<<"o","f">>), ReWs0, ReLit(<<"b","i","r","t","h">>)>>)>>)>>)],
    [key |-> "adm_no", pat |-> ReAlt(<<
        ReCat(<<ReCat(<<ReLit(<<"a","d","m","i","s","s","i","o","n">>), ReWs0, ReLit(<<"n","o">>)>>), ReOpt(ReCh("."))>>),
        ReCat(<<ReCat(<<ReLit(<<"a","d","m">>), ReWs0, ReLit(<<"n","o">>)>>), ReOpt(ReCh("."))>>),
        ReCat(<<ReLit(<<"s","t","u","d","e","n","t">>), ReWs0, ReLit(<<"i","d">>)>>),
        ReLit(<<"i","d">>)>>)],
    [key |-> "phone", pat |-> ReAlt(<<
        ReLit(<<"p","h","o","n","e">>),
        ReLit(<<"t","e","l">>)>>)],
    [key |-> "website", pat |-> ReLit(<<"w","e","b","s","i","t","e">>)],
    [key |-> "email", pat |-> ReAlt(<<
        ReLit(<<"e","m","a","i","l">>),
        ReCat(<<ReCh("e"), ReOpt(ReCh("-")), ReLit(<<"m","a","i","l">>)>>)>>)],
    [key |-> "social", pat |-> ReAlt(<<
        ReCat(<<ReLit(<<"s","o","c","i","a","l">>), ReOpt(ReCat(<<ReWs0, ReLit(<<"m","e","d","i","a">>)>>))>>),
        ReLit(<<"s","o","c","i","a","l","m","e","d","i","a">>)>>)],
    [key |-> "address", pat |-> ReAlt(<<
        ReLit(<<"a","d","d","r","e","s","s">>),
        ReLit(<<"a","d","d","r">>)>>)],
    [key |-> "school", pat |-> ReAlt(<<
        ReLit(<<"s","c","h","o","o","l">>),
        ReLit(<<"c","o","l","l","e","g","e">>),
        ReLit(<<"u","n","i","v","e","r","s","i","t","y">>)>>)],
    [key |-> "card_type", pat |-> ReAlt(<<
        ReCat(<<ReLit(<<"s","t","u","d","e","n","t">>), ReWs0, ReLit(<<"i","d">>), ReWs0, ReLit(<<"c","a","r","d">>)>>),
        ReCat(<<ReLit(<<"i","d">>), ReWs0, ReLit(<<"c","a","r","d">>)>>),
        ReCat(<<ReStar(ReDot), ReCat(<<ReLit(<<"i","d","e","n","t","i","f","i","c","a","t","i","o","n">>), ReWs0, ReLit(<<"c","a","r","d">>)>>)>>)>>)] >>

\* line 18: ^\s*(?:pat)\b\s*: ?\s* with re.IGNORECASE, in the order of LABEL_MAP
LABEL_RE ==
    [n \in 1..Len(LABEL_MAP) |->
        [key |-> LABEL_MAP[n].key,
         rx  |-> ReCat(<<ReBol, ReWs0, LABEL_MAP[n].pat, ReWb, ReWs0, ReCh(":"),
                         ReOpt(ReCh(" ")), ReWs0>>)]]

\* line 20, with re.IGNORECASE
BLACKLIST ==
    ReCat(<<ReWb,
            ReGrp(1, ReAlt(<<
                ReLit(<<"g","e","t","t","y">>),
                ReLit(<<"i","s","t","o","c","k">>),
                ReLit(<<"s","h","u","t","t","e","r","s","t","o","c","k">>),
                ReLit(<<"d","e","p","o","s","i","t","p","h","o","t","o","s">>),
                ReCat(<<ReLit(<<"a","d","o","b","e">>), ReWs0, ReLit(<<"s","t","o","c","k">>)>>),
                ReLit(<<"p","i","x","a","b","a","y">>),
                ReLit(<<"p","e","x","e","l","s">>)>>)),
            ReWb>>)

\* lines 80 and 101: (IDENTIFICATION\s*CARD|ID\s*CARD) with re.IGNORECASE
RE_ID_CARD ==
    ReGrp(1, ReAlt(<<
        ReCat(<<ReLit(<<"I","D","E","N","T","I","F","I","C","A","T","I","O","N">>), ReWs0, ReLit(<<"C","A","R","D">>)>>),
        ReCat(<<ReLit(<<"I","D">>), ReWs0, ReLit(<<"C","A","R","D">>)>>)>>))

\* lines 48-50
_DATE_RE ==
    LET ReDigit == ReSet(Digits)
        ReDateSep == ReSet({"/", "-"})
    IN
    ReCat(<<ReWb,
            ReGrp(1, ReAlt(<<
                ReCat(<<ReRep(ReDigit, 1, 2), ReDateSep, ReRep(ReDigit, 1, 2), ReDateSep,
                        ReRep(ReDigit, 2, 4)>>),
                ReCat(<<ReRep(ReSet(Letters), 3, 9), ReWs1, ReRep(ReDigit, 1, 2), ReCh(","),
                        ReWs0, ReRep(ReDigit, 4, 4)>>),
                ReCat(<<ReRep(ReDigit, 4, 4), ReDateSep, ReRep(ReDigit, 1, 2), ReDateSep,
                        ReRep(ReDigit, 1, 2)>>) >>)),
            ReWb>>)

\* line 23: \s{2,}
RE_SPACES2 == ReRep(ReSet(WS), 2, -1)

S_STUDENT_ID_CARD == <<"S","T","U","D","E","N","T"," ","I","D"," ","C","A","R","D">>

\* str.lstrip(chars), str.rstrip(chars), str.strip(chars)
RECURSIVE LStripSet(_, _)
LStripSet(s, cs) == IF s # <<>> /\ Head(s) \in cs THEN LStripSet(Tail(s), cs) ELSE s

RECURSIVE RStripSet(_, _)
RStripSet(s, cs) ==
    IF s # <<>> /\ s[Len(s)] \in cs THEN RStripSet(SubSeq(s, 1, Len(s) - 1), cs) ELSE s

StripSet(s, cs) == RStripSet(LStripSet(s, cs), cs)

\* str.isupper(): some cased character and no lowercase one
IsUpperStr(s) ==
    (\E i \in 1..Len(s) : IsUpperCh(s[i])) /\ (\A i \in 1..Len(s) : ~IsLowerCh(s[i]))

\* str.split(): the maximal runs of non-whitespace
RECURSIVE SplitWs(_)
SplitWs(s) ==
    LET t == LStrip(s)
        n == IF \E i \in 1..Len(t) : t[i] \in WS
             THEN (CHOOSE i \in 1..Len(t) : t[i] \in WS /\ \A j \in 1..(i - 1) : t[j] \notin WS) - 1
             ELSE Len(t)
    IN  IF t = <<>> THEN <<>>
        ELSE <<SubSeq(t, 1, n)>> \o SplitWs(SubSeq(t, n + 1, Len(t)))

\* str.startswith(p)
StartsWith(p, s) == Len(s) >= Len(p) /\ SubSeq(s, 1, Len(p)) = p

\* m.group(n) or "": the text of group n of the match m on s
GroupOr(m, s, n) == IF m.g[n] = <<0, 0>> THEN <<>> ELSE Slice(s, m.g[n][1], m.g[n][2])

\* lines 22-25
_clean_spaces(s0) ==
    LET s1 == ReSub(RE_SPACES2, <<" ">>, Strip(s0), FALSE)
        s2 == ReplaceFrom(ReplaceFrom(s1, <<" ",",">>, <<",">>, 1), <<" ",".">>, <<".">>, 1)
    IN  Strip(s2)

\* lines 27-31
_normalize_phone(s0) ==
    LET \* line 28: [^\d\-().\s]
        not_phone == ReNot(Digits \cup {"-", "(", ")", "."} \cup WS)
        \* line 30: \s*-\s*
        dash == ReCat(<<ReWs0, ReCh("-"), ReWs0>>)
        s1 == ReSub(not_phone, <<>>, s0, FALSE)
        s2 == Strip(ReSub(ReWs1, <<" ">>, s1, FALSE))
    IN  ReSub(dash, <<"-">>, s2, FALSE)

\* lines 33-46
_normalize_site(s0) ==
    LET \* line 35: ^WWW\b with re.IGNORECASE
        www_word == ReCat(<<ReBol, ReLit(<<"W","W","W">>), ReWb>>)
        \* line 36: ^www(?!\.)
        www_no_dot == ReCat(<<ReBol, ReLit(<<"w","w","w">>), ReNotAhead(ReCh("."))>>)
        \* line 40: (?:(https?)://)?([^/\s]+)(/.*)?$
        site ==
            ReCat(<<ReOpt(ReCat(<<ReGrp(1, ReCat(<<ReLit(<<"h","t","t","p">>), ReOpt(ReCh("s"))>>)), ReLit(<<":","/","/">>)>>)),
                    ReGrp(2, RePlus(ReNot({"/"} \cup WS))),
                    ReOpt(ReGrp(3, ReCat(<<ReCh("/"), ReStar(ReDot)>>))),
                    ReEol>>)
        \* lines 41-45: scheme and domain in lower case, the path as it is
        Rebuilt(s4, m) ==
            IF m.ok
            THEN (IF GroupOr(m, s4, 1) # <<>>
                  THEN LowerStr(GroupOr(m, s4, 1)) \o <<":","/","/">> ELSE <<>>)
                 \o LowerStr(GroupOr(m, s4, 2)) \o GroupOr(m, s4, 3)
            ELSE s4
        \* line 40
        Matched(s4) == Rebuilt(s4, ReMatch(site, s4, FALSE))
        \* lines 38-39: 'www xyz' becomes 'www.xyz'
        Joined(s3, parts) ==
            Matched(IF Len(parts) = 2 /\ StartsWith(<<"w","w","w">>, LowerStr(parts[1]))
                    THEN parts[1] \o <<".">> \o LStripSet(parts[2], {"."})
                    ELSE s3)
        \* line 37
        Dotted(s3) == Joined(s3, SplitWs(s3))
    IN  Dotted(ReSub(www_no_dot, <<"w","w","w",".">>,
                     ReSub(www_word, <<"w","w","w">>, Strip(s0), TRUE), FALSE))

\* lines 52-54 (a fullmatch is also found by search)
_is_date(s) == ReSearch(_DATE_RE, Strip(s), FALSE).ok

\* lines 79-86: the header lines the loop has collected when it stops
RECURSIVE HeaderOf(_, _, _)
HeaderOf(lns, n, header) ==
    IF n > Len(lns) THEN header
    ELSE IF ReSearch(RE_ID_CARD, lns[n], TRUE).ok THEN header
    ELSE IF IsUpperStr(lns[n]) THEN HeaderOf(lns, n + 1, Append(header, lns[n]))
    ELSE HeaderOf(lns, n + 1, <<>>)

\* lines 76-91
_merge_header_school(lns) ==
    LET \* line 89: (.*\b(?:SCHOOL|COLLEGE|UNIVERSITY)\b) with re.IGNORECASE
        school ==
            ReGrp(1, ReCat(<<ReStar(ReDot), ReWb,
                             ReAlt(<<ReLit(<<"S","C","H","O","O","L">>),
                                     ReLit(<<"C","O","L","L","E","G","E">>),
                                     ReLit(<<"U","N","I","V","E","R","S","I","T","Y">>)>>),
                             ReWb>>))
        header == HeaderOf(lns, 1, <<>>)
        s == Strip(JoinSp(header))
        m == ReSearch(school, s, TRUE)
    IN  IF header = <<>> THEN <<>>
        ELSE IF m.ok THEN Strip(GroupOr(m, s, 1)) ELSE s

\* lines 96-97: the stripped non-empty lines that BLACKLIST does not find
RECURSIVE KeptLines(_)
KeptLines(raw) ==
    IF raw = <<>> THEN <<>>
    ELSE LET ln == Strip(Head(raw))
         IN  IF ln # <<>> /\ ~ReSearch(BLACKLIST, ln, TRUE).ok
             THEN <<ln>> \o KeptLines(Tail(raw))
             ELSE KeptLines(Tail(raw))

\* lines 114-117: the first pattern of LABEL_RE that matches ln (0: none)
NoLabel == 0

LabelAt(ln) ==
    LET hits == {n \in 1..Len(LABEL_RE) : ReMatch(LABEL_RE[n].rx, ln, TRUE).ok}
    IN  IF hits = {} THEN NoLabel ELSE CHOOSE n \in hits : \A h \in hits : n <= h

\* lines 118-123: the value a label line carries on the same line, as stored
SameLineValue(key, val) ==
    IF key = "website" THEN _normalize_site(val)
    ELSE IF key = "phone" THEN _normalize_phone(val)
    ELSE IF key = "card_type"
         THEN (IF Contains(<<"c","a","r","d">>, LowerStr(val)) THEN S_STUDENT_ID_CARD ELSE UpperStr(val))
    ELSE val

\* lines 145-147
AddressValue(v0) ==
    LET \* line 145: ,\s*
        comma == ReCat(<<ReCh(","), ReWs0>>)
        \* line 146: \.(?=\S)
        dot_glued == ReCat(<<ReCh("."), ReAhead(ReNot(WS))>>)
        v1 == ReSub(comma, <<","," ">>, v0, FALSE)
        v2 == ReSub(dot_glued, <<"."," ">>, v1, FALSE)
    IN  StripSet(ReSub(RE_SPACES2, <<" ">>, v2, FALSE), {" ", ".", ","})

\* lines 140-156: out after the value v is given to key
StoreValue(o, key, v) ==
    IF key = "website" THEN SetKey(o, key, _normalize_site(v))
    ELSE IF key = "phone" THEN SetKey(o, key, _normalize_phone(v))
    ELSE IF key = "address" THEN SetKey(o, key, AddressValue(v))
    ELSE IF key = "dob" THEN (IF _is_date(v) THEN SetKey(o, key, v) ELSE o)
    ELSE IF key = "card_type" THEN SetKey(o, key, S_STUDENT_ID_CARD)
    ELSE SetKey(o, key, v)

\* lines 160-162
MineEmail(o, blob) ==
    LET \* line 161: [A-Za-z0-9._%+-]+@[A-Za-z0-9.-]+\.[A-Za-z]{2,}
        email ==
            ReCat(<<RePlus(ReSet(Letters \cup Digits \cup {".", "_", "%", "+", "-"})), ReCh("@"),
                    RePlus(ReSet(Letters \cup Digits \cup {".", "-"})), ReCh("."),
                    ReRep(ReSet(Letters), 2, -1)>>)
        m == ReSearch(email, blob, FALSE)
    IN  IF "email" \notin DOMAIN o /\ m.ok THEN SetKey(o, "email", Slice(blob, m.b, m.e)) ELSE o

\* lines 163-168
MineWebsite(o, blob) ==
    LET \* (?:https?://)?
        scheme_opt == ReOpt(ReCat(<<ReLit(<<"h","t","t","p">>), ReOpt(ReCh("s")), ReLit(<<":","/","/">>)>>))
        \* [A-Za-z0-9\-.]+\.[A-Za-z]{2,}(?:/[^\s]*)?
        host_tail ==
            ReCat(<<RePlus(ReSet(Letters \cup Digits \cup {"-", "."})), ReCh("."),
                    ReRep(ReSet(Letters), 2, -1),
                    ReOpt(ReCat(<<ReCh("/"), ReStar(ReNot(WS))>>))>>)
        \* line 165: (?:https?://)?(?:www\.|WWW) and the host; line 166: without www
        site_www ==
            ReCat(<<scheme_opt, ReAlt(<<ReLit(<<"w","w","w",".">>), ReLit(<<"W","W","W">>)>>),
                    host_tail>>)
        site_any == ReCat(<<scheme_opt, host_tail>>)
        m1 == ReSearch(site_www, blob, FALSE)
        m == IF m1.ok THEN m1 ELSE ReSearch(site_any, blob, FALSE)
    IN  IF "website" \notin DOMAIN o /\ m.ok
        THEN SetKey(o, "website", _normalize_site(Slice(blob, m.b, m.e)))
        ELSE o

\* the date of the text replaces a dob that is already there
MutMineDobOverwrite(o, blob) ==
    LET m == ReSearch(_DATE_RE, blob, FALSE)
    IN  IF m.ok THEN SetKey(o, "dob", GroupOr(m, blob, 1)) ELSE o

\* lines 169-171
MineDob(o, blob) ==
    LET m == ReSearch(_DATE_RE, blob, FALSE)
    IN  IF "dob" \notin DOMAIN o /\ m.ok THEN SetKey(o, "dob", GroupOr(m, blob, 1)) ELSE o

\* lines 172-177
MineAdmNo(o, blob) ==
    LET \* line 173: \b[0-9][0-9\s\-/.]{6,}\b
        id_run ==
            ReCat(<<ReWb, ReSet(Digits),
                    ReRep(ReSet(Digits \cup WS \cup {"-", "/", "."}), 6, -1), ReWb>>)
        m_id == ReSearch(id_run, blob, FALSE)
        cand == Slice(blob, m_id.b, m_id.e)
    IN  IF "adm_no" \notin DOMAIN o /\ m_id.ok /\ ~StartsWith(<<"+">>, Strip(cand))
        THEN SetKey(o, "adm_no", cand)
        ELSE o

\* lines 179-181
FinalForm(o) ==
    [k \in DOMAIN o |->
        IF k = "phone" THEN _normalize_phone(o[k])
        ELSE IF k = "website" THEN _normalize_site(o[k])
        ELSE IF k = "card_type" THEN UpperStr(o[k])
        ELSE o[k]]

\* the lines a document is made of
ParseLines == {
    <<"N","a","m","e"," ",":">>,
    <<" ","J","o","h","n"," ">>,
    <<"D","O","B"," ",":">>,
    <<"0","5","/","1","2","/","1","9","9","9">>,
    <<"N","a","m","e"," ",":"," "," ","A","l">>,
    <<":">>,
    <<"S","T","U","D","E","N","T"," ","I","D"," ","C","A","R","D">>,
    <<"i","s","t","o","c","k"," ","p","h","o","t","o">> }

\* the lines of a card whose labels are written in capitals or without a colon
CardLines == {
    <<"N","A","M","E">>,
    <<"J","o","h","n"," ","S","m","i","t","h">>,
    <<"N","a","m","e"," ",":">>,
    <<"D","O","B",":"," ","0","5","/","1","2","/","1","9","9","9">>,
    <<"D","O","B"," ",":"," ","f","o","o">>,
    <<"I","D"," ",":"," ","1","2","3">>,
    <<"F","A","U","G","E","T"," ","H","I","G","H">> }

InitParseCard ==
    /\ ptext \in UNION {[1..n -> CardLines] : n \in 0..MaxDocLines}
    /\ plines = <<>> /\ pout = EmptyMap /\ pending = <<>> /\ values = <<>>
    /\ pidx = 1 /\ clean_values = <<>> /\ vi = 1 /\ pk = 1
    /\ ppc = "start" /\ taken = <<>>

\* the lines of a card whose labelled values have rivals elsewhere in the text
MineLines == {
    <<"0","5","/","1","2","/","1","9","9","9">>,
    <<"D","O","B"," ",":"," ","1","/","2","/","2","0","0","0">>,
    <<"E","m","a","i","l"," ",":"," ","a","@","b",".","c","o">>,
    <<"x","@","y",".","o","r","g">>,
    <<"W","e","b","s","i","t","e"," ",":"," ","w","w","w",".","s",".","o","r","g">>,
    <<"I","D"," ",":">> }

InitParseMine ==
    /\ ptext \in UNION {[1..n -> MineLines] : n \in 0..MaxDocLines}
    /\ plines = <<>> /\ pout = EmptyMap /\ pending = <<>> /\ values = <<>>
    /\ pidx = 1 /\ clean_values = <<>> /\ vi = 1 /\ pk = 1
    /\ ppc = "start" /\ taken = <<>>

\* the lines of a card with a label above its value
WalkLines == {
    <<"N","a","m","e"," ",":">>,
    <<"J","o","h","n">>,
    <<"D","O","B"," ",":"," ","1","/","2","/","2","0","0","0">>,
    <<"x","@","y",".","o","r","g">> }

InitParseWalk ==
    /\ ptext \in UNION {[1..n -> WalkLines] : n \in 0..MaxDocLines}
    /\ plines = <<>> /\ pout = EmptyMap /\ pending = <<>> /\ values = <<>>
    /\ pidx = 1 /\ clean_values = <<>> /\ vi = 1 /\ pk = 1
    /\ ppc = "start" /\ taken = <<>>

\* the lines of a card with a phone number and a website
ContactLines == {
    <<"+","8","4"," ","1","2","3"," ","4","5","6"," ","7","8","9">>,
    <<"P","h","o","n","e"," ",":">>,
    <<"W","e","b","s","i","t","e"," ",":"," ","w","w","w"," ","e","x","a","m","p","l","e",".","c","o","m">>,
    <<"W","e","b","s","i","t","e"," ",":">>,
    <<"W","W","W"," ","e","x","a","m","p","l","e",".","c","o","m">>,
    <<"H","T","T","P","S",":","/","/","W","W","W",".","S","i","t","e",".","o","r","g","/","P","a","t","h">>,
    <<"N","a","m","e"," ",":"," ","a","l">> }

InitParseContact ==
    /\ ptext \in UNION {[1..n -> ContactLines] : n \in 0..MaxDocLines}
    /\ plines = <<>> /\ pout = EmptyMap /\ pending = <<>> /\ values = <<>>
    /\ pidx = 1 /\ clean_values = <<>> /\ vi = 1 /\ pk = 1
    /\ ppc = "start" /\ taken = <<>>

InitParse ==
    /\ ptext \in UNION {[1..n -> ParseLines] : n \in 0..MaxDocLines}
    /\ plines = <<>> /\ pout = EmptyMap /\ pending = <<>> /\ values = <<>>
    /\ pidx = 1 /\ clean_values = <<>> /\ vi = 1 /\ pk = 1
    /\ ppc = "start" /\ taken = <<>>

IdleParse ==
    /\ ptext = <<>>
    /\ plines = <<>> /\ pout = EmptyMap /\ pending = <<>> /\ values = <<>>
    /\ pidx = 1 /\ clean_values = <<>> /\ vi = 1 /\ pk = 1
    /\ ppc = "idle" /\ taken = <<>>

\* lines 95-110: the lines, the card type, the header school
ParseStart ==
    /\ ppc = "start"
    /\ LET lns == KeptLines(ptext)
           o1 == IF \E n \in 1..Len(lns) : ReSearch(RE_ID_CARD, lns[n], TRUE).ok
                 THEN SetKey(EmptyMap, "card_type", S_STUDENT_ID_CARD)
                 ELSE EmptyMap
           school_hdr == _merge_header_school(lns)
       IN  /\ plines' = lns
           /\ pout' = IF school_hdr # <<>> THEN SetKey(o1, "school", school_hdr) ELSE o1
    /\ pending' = <<>> /\ values' = <<>> /\ pidx' = 1
    /\ ppc' = "walk"
    /\ UNCHANGED <<ptext, clean_values, vi, pk, taken>>
    /\ UNCHANGED <<putVars, clVars, guVars, tiVars, exVars, laVars>>

\* lines 111-129: one turn of the loop over lines
WalkLine ==
    /\ ppc = "walk"
    /\ pidx <= Len(plines)
    /\ \E ln \in {_clean_spaces(plines[pidx])} : \E n \in {LabelAt(ln)} :
          IF n = NoLabel
          THEN /\ values' = Append(values, [v |-> ln, at |-> pidx])
               /\ UNCHANGED <<pout, pending>>
          ELSE \E val \in {_clean_spaces(Slice(ln, ReMatch(LABEL_RE[n].rx, ln, TRUE).e,
                                               Len(ln) + 1))} :
                  IF val # <<>>
                  THEN /\ pout' = SetKey(pout, LABEL_RE[n].key,
                                         SameLineValue(LABEL_RE[n].key, val))
                       /\ UNCHANGED <<pending, values>>
                  ELSE /\ pending' = Append(pending, [key |-> LABEL_RE[n].key, at |-> pidx])
                       /\ UNCHANGED <<pout, values>>
    /\ pidx' = pidx + 1
    /\ UNCHANGED <<ptext, plines, clean_values, vi, pk, ppc, taken>>
    /\ UNCHANGED <<putVars, clVars, guVars, tiVars, exVars, laVars>>

\* lines 131-132
CleanValues ==
    /\ ppc = "walk"
    /\ pidx > Len(plines)
    /\ clean_values' =
          LET Keep(x) == LabelAt(x.v) = NoLabel /\ x.v # <<":">>
          IN  SelectSeq(values, Keep)
    /\ vi' = 1 /\ pk' = 1
    /\ ppc' = "pending"
    /\ UNCHANGED <<ptext, plines, pout, pending, values, pidx, taken>>
    /\ UNCHANGED <<putVars, clVars, guVars, tiVars, exVars, laVars>>

\* lines 133-157: one turn of the loop over pending
AssignPending ==
    /\ ppc = "pending"
    /\ pk <= Len(pending)
    /\ vi <= Len(clean_values)
    /\ LET key == pending[pk].key
           skip == /\ key = "dob"
                   /\ ~_is_date(Strip(clean_values[vi].v))
                   /\ vi + 1 <= Len(clean_values)
                   /\ _is_date(clean_values[vi + 1].v)
           at == IF skip THEN vi + 1 ELSE vi
           v == Strip(clean_values[at].v)
           o == StoreValue(pout, key, v)
       IN  /\ pout' = o
           /\ taken' = IF key = "dob" /\ ~_is_date(v) THEN taken
                       ELSE Append(taken, [key |-> key, at |-> pending[pk].at,
                                           from |-> clean_values[at].at])
           /\ vi' = at + 1
    /\ pk' = pk + 1
    /\ UNCHANGED <<ptext, plines, pending, values, pidx, clean_values, ppc>>
    /\ UNCHANGED <<putVars, clVars, guVars, tiVars, exVars, laVars>>

\* lines 159-177: what the walk did not find is searched for in the whole text
Fallback ==
    /\ ppc = "pending"
    /\ pk > Len(pending) \/ vi > Len(clean_values)
    /\ LET blob == JoinSp(plines)
       IN  pout' = MineAdmNo(MineDob(MineWebsite(MineEmail(pout, blob), blob), blob), blob)
    /\ ppc' = "final"
    /\ UNCHANGED <<ptext, plines, pending, values, pidx, clean_values, vi, pk, taken>>
    /\ UNCHANGED <<putVars, clVars, guVars, tiVars, exVars, laVars>>

\* lines 179-182
ParseReturn ==
    /\ ppc = "final"
    /\ pout' = FinalForm(pout)
    /\ ppc' = "done"
    /\ UNCHANGED <<ptext, plines, pending, values, pidx, clean_values, vi, pk, taken>>
    /\ UNCHANGED <<putVars, clVars, guVars, tiVars, exVars, laVars>>

(***************************************************************************)
(* TextTidier: id_parser.tidy_text. A text is a sequence of characters     *)
(* with "\n" between its lines.                                            *)
(***************************************************************************)
\* str.splitlines(): the pieces between line ends, no empty piece at the end
RECURSIVE SplitLines(_)
SplitLines(text) ==
    IF text = <<>> THEN <<>>
    ELSE LET ends == {n \in 1..Len(text) : text[n] = "\n"}
             n == IF ends = {} THEN Len(text) + 1
                  ELSE CHOOSE e \in ends : \A o \in ends : e <= o
         IN  <<SubSeq(text, 1, n - 1)>> \o SplitLines(SubSeq(text, n + 1, Len(text)))

\* line 58: [ln.strip() for ln in text.splitlines() if ln.strip()]
RECURSIVE StrippedLines(_)
StrippedLines(raw) ==
    IF raw = <<>> THEN <<>>
    ELSE (IF Strip(Head(raw)) # <<>> THEN <<Strip(Head(raw))>> ELSE <<>>)
         \o StrippedLines(Tail(raw))

\* line 68: \s*:\s*
RE_COLON == ReCat(<<ReWs0, ReCh(":"), ReWs0>>)

\* out[-1] = x
SetLast(out, x) == [out EXCEPT ![Len(out)] = x]

\* lines 62-73: one turn of the loop, from position i (counted from 1) with
\* the list out; gives the position and the list after the turn
TidyTurn(lns, i, out) ==
    LET ln == lns[i]
        nxt == IF i + 1 <= Len(lns) THEN Strip(lns[i + 1]) ELSE <<>>
        ln2 == ReSub(RE_COLON, <<" ",":"," ">>, ln, FALSE)
    IN  IF ln = <<":">> /\ out # <<>>
        THEN [i |-> i + 2,
              out |-> SetLast(out, RStripSet(out[Len(out)], {" ", ":"}) \o <<" ",":"," ">> \o nxt)]
        ELSE IF out # <<>> /\ StartsWith(<<":">>, ln2)
        THEN [i |-> i + 1,
              out |-> SetLast(out, RStripSet(out[Len(out)], {" ", ":"}) \o <<" ",":"," ">>
                                   \o Strip(Tail(ln2)))]
        ELSE [i |-> i + 1, out |-> Append(out, ln2)]

\* lines 61-73: the loop from position i on
RECURSIVE TidyLoop(_, _, _)
TidyLoop(lns, i, out) ==
    IF i > Len(lns) THEN out
    ELSE The({TidyLoop(lns, t.i, t.out) : t \in {TidyTurn(lns, i, out)}})

\* lines 57-74
tidy_text(text) == JoinNl(TidyLoop(StrippedLines(SplitLines(text)), 1, <<>>))

\* the lines a text given to tidy_text is made of
TidyLines == {
    <<"N","a","m","e">>,
    <<":">>,
    <<"J","o","h","n">>,
    <<"a",":","b">>,
    <<":"," ","c">>,
    <<"D","O","B"," ",":"," "," ","1","/","2">>,
    <<>> }

TidyTexts == {JoinNl(ls) : ls \in UNION {[1..n -> TidyLines] : n \in 0..MaxTidyLines}}

InitTidy ==
    /\ ttext \in TidyTexts
    /\ tlines = <<>> /\ tout = <<>> /\ ti = 1 /\ tpc = "start" /\ tidied = <<>>

IdleTidy ==
    /\ ttext = <<>>
    /\ tlines = <<>> /\ tout = <<>> /\ ti = 1 /\ tpc = "idle" /\ tidied = <<>>

\* lines 58-60
TidyStart ==
    /\ tpc = "start"
    /\ tlines' = StrippedLines(SplitLines(ttext))
    /\ tout' = <<>>
    /\ ti' = 1
    /\ tpc' = "loop"
    /\ UNCHANGED <<ttext, tidied>>
    /\ UNCHANGED <<putVars, clVars, guVars, paVars, exVars, laVars>>

\* lines 61-73: one turn of the loop
TidyLine ==
    /\ tpc = "loop"
    /\ ti <= Len(tlines)
    /\ \E t \in {TidyTurn(tlines, ti, tout)} :
          /\ ti' = t.i
          /\ tout' = t.out
    /\ UNCHANGED <<ttext, tlines, tpc, tidied>>
    /\ UNCHANGED <<putVars, clVars, guVars, paVars, exVars, laVars>>

\* line 74
TidyReturn ==
    /\ tpc = "loop"
    /\ ti > Len(tlines)
    /\ tidied' = JoinNl(tout)
    /\ tpc' = "done"
    /\ UNCHANGED <<ttext, tlines, tout, ti>>
    /\ UNCHANGED <<putVars, clVars, guVars, paVars, exVars, laVars>>

(***************************************************************************)
(* StudentIDFieldExtractor: field_extractors.py                            *)
(***************************************************************************)
\* lines 78-99: the keys and their patterns, in the order of the dict
LABEL_PATTERNS == <<
    [key |-> "name", pat |-> ReAlt(<<
        ReLit(<<"n","a","m","e">>),
        ReCat(<<ReLit(<<"s","t","u","d","e","n","t">>), ReWs0, ReLit(<<"n","a","m","e">>)>>)>>)],
    [key |-> "dob", pat |-> ReAlt(<<
        ReCat(<<ReCh("d"), ReOpt(ReCh(".")), ReCh("o"), ReOpt(ReCh(".")), ReCh("b"),
                ReOpt(ReCh("."))>>),
        ReCat(<<ReLit(<<"d","a","t","e">>), ReWs0, ReLit(<<"o","f">>), ReWs0, ReLit(<<"b","i","r","t","h">>)>>)>>)],
    [key |-> "adm_no", pat |-> ReAlt(<<
        ReCat(<<ReLit(<<"a","d","m">>), ReWs0, ReLit(<<"n","o">>), ReOpt(ReCh("."))>>),
        ReCat(<<ReLit(<<"a","d","m">>), ReOpt(ReCh("n")), ReCh("o"), ReOpt(ReCh("."))>>),
        ReCat(<<ReLit(<<"a","d","m","i","s","s","i","o","n">>), ReWs0, ReLit(<<"n","o">>), ReOpt(ReCh("."))>>),
        ReLit(<<"i","d">>)>>)],
    [key |-> "phone", pat |-> ReAlt(<<ReLit(<<"p","h","o","n","e">>), ReLit(<<"t","e","l">>)>>)],
    [key |-> "website", pat |-> ReLit(<<"w","e","b","s","i","t","e">>)],
    [key |-> "email", pat |-> ReAlt(<<ReLit(<<"e","m","a","i","l">>), ReLit(<<"e","-","m","a","i","l">>)>>)],
    [key |-> "social", pat |-> ReAlt(<<
        ReLit(<<"s","o","c","i","a","l">>),
        ReCat(<<ReLit(<<"s","o","c","i","a","l">>), ReWs0, ReLit(<<"m","e","d","i","a">>)>>)>>)],
    [key |-> "address", pat |-> ReAlt(<<ReLit(<<"a","d","d","r","e","s","s">>), ReLit(<<"a","d","d","r">>)>>)],
    [key |-> "school", pat |-> ReAlt(<<ReLit(<<"s","c","h","o","o","l">>), ReLit(<<"c","o","l","l","e","g","e">>), ReLit(<<"u","n","i","v","e","r","s","i","t","y">>)>>)],
    [key |-> "card_type", pat |-> ReAlt(<<
        ReCat(<<ReLit(<<"s","t","u","d","e","n","t">>), ReWs0, ReLit(<<"i","d">>), ReWs0, ReLit(<<"c","a","r","d">>)>>),
        ReCat(<<ReLit(<<"i","d">>), ReWs0, ReLit(<<"c","a","r","d">>)>>)>>)] >>

\* lines 101-107: the key of the first pattern that matches the line, or ""
_is_label(line) ==
    LET s == CollapseWs(LowerStr(Strip(line)))
        hits == {n \in 1..Len(LABEL_PATTERNS) :
                    ReMatch(ReCat(<<ReBol, LABEL_PATTERNS[n].pat, ReWb>>), s, FALSE).ok}
    IN  IF hits = {} THEN ""
        ELSE LABEL_PATTERNS[CHOOSE n \in hits : \A h \in hits : n <= h].key

\* lines 109-111: [:\-]\s*(.+)$
_after_colon_value(line) ==
    LET after == ReCat(<<ReSet({":", "-"}), ReWs0, ReGrp(1, RePlus(ReDot)), ReEol>>)
        m == ReSearch(after, line, FALSE)
    IN  IF m.ok THEN Strip(GroupOr(m, line, 1)) ELSE <<>>

\* lines 113-117
_clean_address(s0) ==
    LET s1 == ReSub(RE_SPACES2, <<" ">>, s0, FALSE)
        s2 == ReplaceFrom(ReplaceFrom(s1, <<" ",",">>, <<",">>, 1), <<" ",".">>, <<".">>, 1)
        s3 == ReplaceFrom(s2, <<".",",">>, <<".">>, 1)
    IN  StripSet(s3, {" ", ",", "."})

\* str.capitalize() and str.isalpha()
Capitalize(w) == [i \in 1..Len(w) |-> IF i = 1 THEN UpperCh(w[i]) ELSE LowerCh(w[i])]

IsAlphaStr(w) == w # <<>> /\ \A i \in 1..Len(w) : IsAlphaCh(w[i])

\* lines 119-122
_title_name(s) ==
    LET ws == SplitWs(s)
    IN  IF IsUpperStr(s) /\ Len(s) <= 4 THEN s
        ELSE JoinSp([i \in 1..Len(ws) |-> IF IsAlphaStr(ws[i]) THEN Capitalize(ws[i]) ELSE ws[i]])

\* lines 145-146: the stripped lines that are neither empty nor a separator
\* (of the class [_\-...=~] the characters of the model's alphabet)
RECURSIVE ExtractLines(_)
ExtractLines(raw) ==
    IF raw = <<>> THEN <<>>
    ELSE LET ln == Strip(Head(raw))
             separator == ln # <<>> /\ \A i \in 1..Len(ln) : ln[i] \in {"_", "-", "=", "~"}
         IN  (IF ln # <<>> /\ ~separator THEN <<ln>> ELSE <<>>) \o ExtractLines(Tail(raw))

\* line 150: the position of the first label line, Len(lns) + 1 if there is none
FirstLabelIndex(lns) ==
    LET hits == {n \in 1..Len(lns) : _is_label(lns[n]) # ""}
    IN  IF hits = {} THEN Len(lns) + 1 ELSE CHOOSE n \in hits : \A h \in hits : n <= h

\* lines 151-152: the header candidates that are all capitals
AllCaps(lns) ==
    LET IsCaps(ln) == UpperStr(ln) = ln /\ \E i \in 1..Len(ln) : IsUpperCh(ln[i])
    IN  SelectSeq(SubSeq(lns, 1, FirstLabelIndex(lns) - 1), IsCaps)

\* lines 155-165: the loop that merges a short line of capitals into the one before
RECURSIVE MergeCaps(_, _)
MergeCaps(caps, idx) ==
    IF idx > Len(caps) THEN <<>>
    ELSE LET cur_line == caps[idx]
             nxt == IF idx + 1 <= Len(caps) THEN caps[idx + 1] ELSE <<>>
             short == /\ nxt # <<>>
                      /\ IsUpperStr(nxt)
                      /\ \A i \in 1..Len(nxt) : IsUpperCh(nxt[i]) \/ nxt[i] \in WS
                      /\ Len(nxt) <= 12
         IN  IF short
             THEN <<Strip(cur_line \o <<" ">> \o nxt)>> \o MergeCaps(caps, idx + 2)
             ELSE <<cur_line>> \o MergeCaps(caps, idx + 1)

\* lines 167-178: school and card type from the merged headers
HeaderFields(merged) ==
    LET \* line 168: \b(SCHOOL|COLLEGE|UNIVERSITY)\b
        school_word == ReCat(<<ReWb, ReAlt(<<ReLit(<<"S","C","H","O","O","L">>), ReLit(<<"C","O","L","L","E","G","E">>),
                                              ReLit(<<"U","N","I","V","E","R","S","I","T","Y">>)>>), ReWb>>)
        \* line 174: \bSTUDENT\s*ID\s*CARD\b
        card_word == ReCat(<<ReWb, ReLit(<<"S","T","U","D","E","N","T">>), ReWs0, ReLit(<<"I","D">>), ReWs0,
                             ReLit(<<"C","A","R","D">>), ReWb>>)
        schools == {n \in 1..Len(merged) : ReSearch(school_word, merged[n], FALSE).ok}
        cards == {n \in 1..Len(merged) : ReSearch(card_word, merged[n], FALSE).ok}
        o1 == IF schools = {} THEN EmptyMap
              ELSE SetKey(EmptyMap, "school",
                          merged[CHOOSE n \in schools : \A h \in schools : n <= h])
    IN  IF cards = {} THEN o1 ELSE SetKey(o1, "card_type", S_STUDENT_ID_CARD)

\* lines 194-197: the label line with the 'media' lines after it joined on, and
\* the position of the last line joined
RECURSIVE SocialLabel(_, _, _)
SocialLabel(lns, j, label_line) ==
    IF j + 1 <= Len(lns) /\ LowerStr(Strip(lns[j + 1])) = <<"m","e","d","i","a">>
    THEN SocialLabel(lns, j + 1, Strip(label_line \o <<" ">> \o lns[j + 1]))
    ELSE [j |-> j, label_line |-> label_line]

\* lines 207-222: the lines after position i up to the next label line; gives
\* the position k where the loop stops and the value joined from the lines
\* that hold a word character
GatherValue(lns, i) ==
    LET labels == {n \in (i + 1)..Len(lns) : _is_label(lns[n]) # ""}
        k == IF labels = {} THEN Len(lns) + 1 ELSE CHOOSE n \in labels : \A h \in labels : n <= h
        HasWord(ln) == \E c \in 1..Len(ln) : ln[c] \in WordChars
    IN  [k |-> k, value |-> Strip(JoinSp(SelectSeq(SubSeq(lns, i + 1, k - 1), HasWord)))]

\* lines 225-247: out after value is stored for key
StoreField(o, key, value) ==
    LET norm_value == Strip(value)
    IN  IF key = "name" THEN SetKey(o, key, _title_name(norm_value))
        ELSE IF key = "adm_no" THEN SetKey(o, key, ReSub(RE_SPACES2, <<" ">>, norm_value, FALSE))
        ELSE IF key = "address" THEN SetKey(o, key, _clean_address(norm_value))
        ELSE IF key \in {"school", "card_type"} THEN SetKey(o, key, UpperStr(norm_value))
        ELSE SetKey(o, key, norm_value)

\* lines 184-249: one turn of the loop, at position i (counted from 1) with the
\* dict o; gives the position and the dict after the turn
ExtractTurn(lns, i, o) ==
    LET \* lines 225-249: the value is stored, the walk goes on after line last
        Stored(key, value, last) ==
            [i |-> last + 1,
             out |-> IF value # <<>> THEN StoreField(o, key, value) ELSE o]
        \* lines 204-222: the value on the label line, else the lines gathered
        Valued(key, j, same, gv) ==
            IF same # <<>> THEN Stored(key, same, j) ELSE Stored(key, gv.value, gv.k - 1)
        \* lines 189-201: the label line, with the 'media' lines joined on
        Labelled(sl) ==
            Valued(_is_label(sl.label_line), sl.j, _after_colon_value(sl.label_line),
                   GatherValue(lns, sl.j))
        \* lines 184-189: a line that is no label is passed over
        Turn(line, key0) ==
            IF key0 = "" THEN [i |-> i + 1, out |-> o]
            ELSE Labelled(IF key0 = "social" THEN SocialLabel(lns, i, line)
                          ELSE [j |-> i, label_line |-> line])
    IN  Turn(lns[i], _is_label(lns[i]))

\* lines 252-258
InferDob(o, text) ==
    LET \* line 254: \b(\d{1,2}[/-]\d{1,2}[/-]\d{2,4}|\d{4}[/-]\d{1,2}[/-]\d{1,2})\b
        ReDigit == ReSet(Digits)
        ReDateSep == ReSet({"/", "-"})
        date == ReCat(<<ReWb,
                        ReGrp(1, ReAlt(<<
                            ReCat(<<ReRep(ReDigit, 1, 2), ReDateSep, ReRep(ReDigit, 1, 2),
                                    ReDateSep, ReRep(ReDigit, 2, 4)>>),
                            ReCat(<<ReRep(ReDigit, 4, 4), ReDateSep, ReRep(ReDigit, 1, 2),
                                    ReDateSep, ReRep(ReDigit, 1, 2)>>)>>)),
                        ReWb>>)
        m == ReSearch(date, text, FALSE)
    IN  IF "dob" \notin DOMAIN o /\ m.ok THEN SetKey(o, "dob", GroupOr(m, text, 1)) ELSE o

\* lines 259-266
InferAdmNo(o, text) ==
    LET \* line 262: \b(?:\d{3,4}[\s-]?\d{3,4}[\s-]?\d{3,4})\b
        ReDigit == ReSet(Digits)
        ReGap == ReOpt(ReSet(WS \cup {"-"}))
        run == ReCat(<<ReWb, ReRep(ReDigit, 3, 4), ReGap, ReRep(ReDigit, 3, 4), ReGap,
                       ReRep(ReDigit, 3, 4), ReWb>>)
        m == ReSearch(run, text, FALSE)
    IN  IF "adm_no" \notin DOMAIN o /\ m.ok
        THEN SetKey(o, "adm_no", ReplaceFrom(Slice(text, m.b, m.e), <<" ">>, <<>>, 1))
        ELSE o

\* lines 267-269
FirstHeaderSchool(o, merged) ==
    IF "school" \notin DOMAIN o /\ merged # <<>> THEN SetKey(o, "school", merged[1]) ELSE o

\* lines 272-273
CleanAddress(o) ==
    IF "address" \in DOMAIN o THEN SetKey(o, "address", _clean_address(o["address"])) ELSE o

\* the lines a text given to extract_fields is made of
ExtractInputLines == {
    <<"F","A","U","G","E","T">>,
    <<"H","I","G","H"," ","S","C","H","O","O","L">>,
    <<"N","a","m","e"," ",":"," ","a","l">>,
    <<"N","a","m","e">>,
    <<"J","o","h","n">>,
    <<"I","D"," ","C","a","r","d">>,
    <<"D","O","B">>,
    <<"0","5","/","1","2","/","1","9","9","9">>,
    <<"S","T","U","D","E","N","T"," ","I","D"," ","C","A","R","D">> }

InitExtract ==
    /\ xtext \in UNION {[1..n -> ExtractInputLines] : n \in 0..MaxExtractLines}
    /\ xlines = <<>> /\ merged_caps = <<>> /\ xout = EmptyMap /\ xi = 1 /\ xpc = "start"
    /\ gfields = EmptyMap

IdleExtract ==
    /\ xtext = <<>>
    /\ xlines = <<>> /\ merged_caps = <<>> /\ xout = EmptyMap /\ xi = 1 /\ xpc = "idle"
    /\ gfields = EmptyMap

\* lines 143-182: the lines, the merged headers, school and card type from them
ExtractStart ==
    /\ xpc = "start"
    /\ LET lns == ExtractLines(xtext)
           merged == MergeCaps(AllCaps(lns), 1)
       IN  /\ xlines' = lns
           /\ merged_caps' = merged
           /\ xout' = HeaderFields(merged)
    /\ xi' = 1
    /\ xpc' = "walk"
    /\ UNCHANGED <<xtext, gfields>>
    /\ UNCHANGED <<putVars, clVars, guVars, paVars, tiVars, laVars>>

\* lines 183-249: one turn of the loop over lines
ExtractLine ==
    /\ xpc = "walk"
    /\ xi <= Len(xlines)
    /\ \E t \in {ExtractTurn(xlines, xi, xout)} :
          /\ xi' = t.i
          /\ xout' = t.out
    /\ UNCHANGED <<xtext, xlines, merged_caps, xpc, gfields>>
    /\ UNCHANGED <<putVars, clVars, guVars, paVars, tiVars, laVars>>

\* lines 251-275: what the walk did not find is inferred, the dict is returned
ExtractReturn ==
    /\ xpc = "walk"
    /\ xi > Len(xlines)
    /\ xout' = CleanAddress(FirstHeaderSchool(
                  InferAdmNo(InferDob(xout, JoinNl(xtext)), JoinNl(xtext)), merged_caps))
    /\ xpc' = "done"
    /\ UNCHANGED <<xtext, xlines, merged_caps, xi, gfields>>
    /\ UNCHANGED <<putVars, clVars, guVars, paVars, tiVars, laVars>>

(***************************************************************************)
(* GenericCardFieldExtractor.extract_fields: field_extractors.py lines     *)
(* 282-310. It runs StudentIDFieldExtractor.extract_fields (line 284) and  *)
(* then walks the lines once more for labels that extractor does not know. *)
(***************************************************************************)
\* the keys StudentIDFieldExtractor.extract_fields may set, as texts
FieldKeyText == [
    name |-> <<"n","a","m","e">>, dob |-> <<"d","o","b">>, adm_no |-> <<"a","d","m","_","n","o">>, phone |-> <<"p","h","o","n","e">>,
    website |-> <<"w","e","b","s","i","t","e">>, email |-> <<"e","m","a","i","l">>, social |-> <<"s","o","c","i","a","l">>,
    address |-> <<"a","d","d","r","e","s","s">>, school |-> <<"s","c","h","o","o","l">>, card_type |-> <<"c","a","r","d","_","t","y","p","e">> ]

\* str.replace(" ", "_")
SpaceToUnderscore(s) == [n \in 1..Len(s) |-> IF s[n] = " " THEN "_" ELSE s[n]]

\* line 307: key not in fields
InFields(key, flds, gf) ==
    \/ key \in DOMAIN gf
    \/ \E k \in DOMAIN flds : FieldKeyText[k] = key

\* one turn of the walk without the i += 1 of line 309 on a line that carries
\* its own value after the colon
MutGenericTurnNoStep(lns, i, flds, gf) ==
    LET line == lns[i]
        colons == {n \in 1..Len(line) : line[n] = ":"}
        c == IF colons = {} THEN 0 ELSE CHOOSE n \in colons : \A o \in colons : n <= o
        key == SpaceToUnderscore(LowerStr(Strip(SubSeq(line, 1, c - 1))))
        value == Strip(SubSeq(line, c + 1, Len(line)))
    IN  IF _is_label(line) = "" /\ c # 0 /\ key # <<>> /\ value # <<>>
           /\ ~InFields(key, flds, gf)
        THEN [i |-> i, gf |-> SetKey(gf, key, value)]
        ELSE [i |-> i + 1, gf |-> gf]

\* lines 291-309: one turn of the loop, at position i (counted from 1); gives
\* the position and the added entries after the turn
GenericTurn(lns, i, flds, gf) ==
    LET line == lns[i]
        N == Len(lns)
        colons == {n \in 1..Len(line) : line[n] = ":"}
        c == IF colons = {} THEN 0 ELSE CHOOSE n \in colons : \A o \in colons : n <= o
        lhs == SubSeq(line, 1, c - 1)
        rhs == SubSeq(line, c + 1, Len(line))
        next_ok == i + 1 <= N
        key == IF c # 0 THEN SpaceToUnderscore(LowerStr(Strip(lhs)))
               ELSE IF next_ok /\ _is_label(lns[i + 1]) = ""
                    THEN SpaceToUnderscore(LowerStr(line))
                    ELSE <<>>
        value == IF c # 0
                 THEN (IF Strip(rhs) # <<>> THEN Strip(rhs)
                       ELSE IF next_ok THEN Strip(lns[i + 1]) ELSE <<>>)
                 ELSE IF next_ok /\ _is_label(lns[i + 1]) = ""
                      THEN Strip(lns[i + 1])
                      ELSE <<>>
        step == IF c # 0
                THEN (IF Strip(rhs) = <<>> /\ next_ok THEN 1 ELSE 0)
                ELSE IF next_ok /\ _is_label(lns[i + 1]) = "" THEN 1 ELSE 0
    IN  IF _is_label(line) # "" THEN [i |-> i + 1, gf |-> gf]
        ELSE [i |-> i + step + 1,
              gf |-> IF key # <<>> /\ value # <<>> /\ ~InFields(key, flds, gf)
                     THEN SetKey(gf, key, value)
                     ELSE gf]

\* lines 284-289: fields is what StudentIDFieldExtractor.extract_fields returned;
\* the lines are the stripped lines that are not empty
GenericStart ==
    /\ xpc = "done"
    /\ xlines' = StrippedLines(xtext)
    /\ xi' = 1
    /\ xpc' = "generic"
    /\ UNCHANGED <<xtext, merged_caps, xout, gfields>>
    /\ UNCHANGED <<putVars, clVars, guVars, paVars, tiVars, laVars>>

\* lines 290-309: one turn of the loop over lines
GenericLine ==
    /\ xpc = "generic"
    /\ xi <= Len(xlines)
    /\ \E t \in {GenericTurn(xlines, xi, xout, gfields)} :
          /\ xi' = t.i
          /\ gfields' = t.gf
    /\ UNCHANGED <<xtext, xlines, merged_caps, xout, xpc>>
    /\ UNCHANGED <<putVars, clVars, guVars, paVars, tiVars, laVars>>

\* line 310: return fields
GenericReturn ==
    /\ xpc = "generic"
    /\ xi > Len(xlines)
    /\ xpc' = "returned"
    /\ UNCHANGED <<xtext, xlines, merged_caps, xout, xi, gfields>>
    /\ UNCHANGED <<putVars, clVars, guVars, paVars, tiVars, laVars>>

\* the lines of a card with a label the extractors do not know
GenericCardLines == {
    <<"N","a","m","e">>,
    <<"J","o","h","n">>,
    <<"M","e","m","o"," ",":">>,
    <<"c","a","r","d","_","t","y","p","e"," ",":"," ","x">>,
    <<"S","T","U","D","E","N","T"," ","I","D"," ","C","A","R","D">> }

InitGeneric ==
    /\ xtext \in UNION {[1..n -> GenericCardLines] : n \in 0..MaxExtractLines}
    /\ xlines = <<>> /\ merged_caps = <<>> /\ xout = EmptyMap /\ xi = 1 /\ xpc = "start"
    /\ gfields = EmptyMap

(***************************************************************************)
(* BaseDocAIParser._layout_text: docAI.py lines 52-64. A segment is        *)
(* [start_index, end_index]; an index that is not set reads as 0.          *)
(***************************************************************************)
\* number of text segments of a text anchor
MaxSegs == 2

\* Python's text[a:b] for 0 <= a: the characters a+1 .. b of the sequence, as
\* far as the text goes
PySlice(s, a, b) ==
    LET e == IF b < Len(s) THEN b ELSE Len(s)
    IN  IF a < e THEN SubSeq(s, a + 1, e) ELSE <<>>

\* the document text of a card row, with white space inside and at the end
DocText == <<"a"," ","b"," ">>

DocTexts == {<<>>, DocText}

\* the offsets a segment may carry: inside the text, at its end, and past it
Offsets == {0, 2, 3, 6}

SegLists ==
    UNION { [1..n -> [start_index : Offsets, end_index : Offsets]] : n \in 0..MaxSegs }

InitLayout ==
    /\ dtext \in DocTexts
    /\ \/ layout \in {"none", "no_anchor"} /\ segs = <<>>
       \/ layout = "anchor" /\ segs \in SegLists
    /\ lparts = <<>>
    /\ si = 1
    /\ lpc = "start"
    /\ span = <<>>

\* _layout_text is not running
IdleLayout ==
    /\ dtext = <<>> /\ layout = "none" /\ segs = <<>> /\ lparts = <<>>
    /\ si = 1 /\ lpc = "idle" /\ span = <<>>

\* lines 54-58: no layout or no text anchor returns ""
LayoutStart ==
    /\ lpc = "start"
    /\ lpc' = IF layout = "anchor" THEN "loop" ELSE "done"
    /\ UNCHANGED <<dtext, layout, segs, lparts, si, span>>
    /\ UNCHANGED <<putVars, clVars, guVars, paVars, tiVars, exVars>>

\* the part of a segment had _layout_text trimmed each part by itself
MutSegPartTrimmed(text, seg) == Strip(PySlice(text, seg.start_index, seg.end_index))

\* the part a segment adds to parts (line 63)
SegPart(text, seg) == PySlice(text, seg.start_index, seg.end_index)

\* lines 59-63: one turn of the loop over the segments
LayoutSeg ==
    /\ lpc = "loop"
    /\ si <= Len(segs)
    /\ lparts' = IF segs[si].end_index > segs[si].start_index
                THEN Append(lparts, SegPart(dtext, segs[si]))
                ELSE lparts
    /\ si' = si + 1
    /\ UNCHANGED <<dtext, layout, segs, lpc, span>>
    /\ UNCHANGED <<putVars, clVars, guVars, paVars, tiVars, exVars>>

\* line 64: return "".join(parts).strip()
LayoutReturn ==
    /\ lpc = "loop"
    /\ si > Len(segs)
    /\ span' = Strip(Flatten(lparts))
    /\ lpc' = "done"
    /\ UNCHANGED <<dtext, layout, segs, lparts, si>>
    /\ UNCHANGED <<putVars, clVars, guVars, paVars, tiVars, exVars>>

(***************************************************************************)
(* The application's image branch: main.py lines 187-193. The text of the  *)
(* page (ocr_image, lines 74-84: with the engine "Google Vision" the       *)
(* result of _vision_lines_with_gutter through OCRUtils.vision_ocr, with   *)
(* EasyOCR the result of easyocr_pretty through run_easy) is given to      *)
(* tidy_text, and the tidied text to parse_id_fields.                      *)
(***************************************************************************)
W_Phone == [t |-> <<"P","h","o","n","e">>, x1 |-> 0, x2 |-> 2]

W_Number == [t |-> <<"5","5","5","-","1","2","3","4">>, x1 |-> 6, x2 |-> 8]

\* the Lines of the pages of a card with a phone row
PhoneLineSet == {
    <<W_Phone, W_Colon, W_Number>>,
    <<W_Number, W_Colon, W_Phone>>,
    <<W_Phone>>,
    <<W_Number>>,
    <<W_ColonR, W_Number>> }

InitPage ==
    /\ lines \in UNION { [1..n -> PhoneLineSet] : n \in 0..MaxLines }
    /\ gutter4 = NoGutter
    /\ gi = 1
    /\ out_lines = <<>>
    /\ carry_label = <<>>
    /\ gpc = "gutter"
    /\ vtext = <<>>

\* the results EasyOCR reports for a card: a label, a value under it, and a
\* token of white space
R_Label == [t |-> <<"N","a","m","e",":">>, x1 |-> 0, x2 |-> 1, y1 |-> 0, y2 |-> 2]

R_Value == [t |-> TokA, x1 |-> 0, x2 |-> 1, y1 |-> 4, y2 |-> 6]

R_Blank == [t |-> TokBlank, x1 |-> 0, x2 |-> 1, y1 |-> 8, y2 |-> 10]

EasyResultSet == {R_Label, R_Value, R_Blank}

\* main.py lines 70-72: run_easy hands the reader's results to easyocr_pretty
InitEasy ==
    /\ results \in UNION { { [i \in 1..n |->
                                [id |-> i, t |-> f[i].t, x1 |-> f[i].x1,
                                 x2 |-> f[i].x2, y1 |-> f[i].y1, y2 |-> f[i].y2]]
                              : f \in [1..n -> EasyResultSet] }
                            : n \in 0..MaxTokens }
    /\ words = <<>>
    /\ med2 = 2
    /\ lines = <<>>
    /\ cur = <<>>
    /\ last_y = NoY
    /\ ci = 1
    /\ cpc = "start"
    /\ pretty = <<>>

\* main.py lines 187-188: text = ocr_image(pil); cleaned = tidy_text(text)
TidyCall ==
    /\ gpc = "done" \/ cpc = "done"
    /\ tpc = "idle"
    /\ ttext' = IF gpc = "done" THEN vtext ELSE pretty
    /\ tpc' = "start"
    /\ UNCHANGED <<tlines, tout, ti, tidied>>
    /\ UNCHANGED <<putVars, clVars, guVars, paVars, exVars, laVars>>

\* main.py line 193: fields = parse_id_fields(cleaned)
ParseCall ==
    /\ tpc = "done"
    /\ ppc = "idle"
    /\ ptext' = SplitLines(tidied)
    /\ ppc' = "start"
    /\ UNCHANGED <<plines, pout, pending, values, pidx, clean_values, vi, pk, taken>>
    /\ UNCHANGED <<putVars, clVars, guVars, tiVars, exVars, laVars>>

(***************************************************************************)
(* Specifications: one per component or input set, the other components   *)
(* idle; SpecPage runs the splitter, tidy_text and parse_id_fields in turn. *)
(***************************************************************************)
NextPut == ExtractEntity

InitSpecPut ==
    /\ IdleLayout /\ InitPut /\ IdleCluster /\ IdleGutter /\ IdleParse /\ IdleTidy /\ IdleExtract

SpecPut == InitSpecPut /\ [][NextPut]_vars

NextStudent == ExtractStudentEntity

InitSpecStudent ==
    /\ IdleLayout /\ InitPut /\ IdleCluster /\ IdleGutter /\ IdleParse /\ IdleTidy /\ IdleExtract

SpecStudent == InitSpecStudent /\ [][NextStudent]_vars

NextCluster == Prepare \/ ClusterStep \/ Flush \/ Emit

InitSpecCluster ==
    /\ IdleLayout /\ InitCluster /\ IdlePut /\ IdleGutter /\ IdleParse /\ IdleTidy /\ IdleExtract

SpecCluster == InitSpecCluster /\ [][NextCluster]_vars

NextGutter == FindGutter \/ SplitLine \/ ReturnText

\* the clusterer's variables other than lines rest where the grouping loop
\* left off
InitSpecGutter ==
    /\ IdleLayout
    /\ InitGutter
    /\ IdlePut
    /\ IdleParse
    /\ IdleTidy
    /\ IdleExtract
    /\ results = <<>> /\ words = <<>> /\ med2 = 2 /\ cur = <<>> /\ last_y = NoY
    /\ ci = 1 /\ cpc = "idle" /\ pretty = <<>>

SpecGutter == InitSpecGutter /\ [][NextGutter]_vars

NextParse == ParseStart \/ WalkLine \/ CleanValues \/ AssignPending \/ Fallback \/ ParseReturn

InitSpecParse ==
    /\ IdleLayout
    /\ InitParse
    /\ IdlePut
    /\ IdleCluster
    /\ IdleGutter
    /\ IdleTidy
    /\ IdleExtract

SpecParse == InitSpecParse /\ [][NextParse]_vars

InitSpecParseCard ==
    /\ IdleLayout
    /\ InitParseCard
    /\ IdlePut
    /\ IdleCluster
    /\ IdleGutter
    /\ IdleTidy
    /\ IdleExtract

SpecParseCard == InitSpecParseCard /\ [][NextParse]_vars

InitSpecParseMine ==
    /\ IdleLayout
    /\ InitParseMine
    /\ IdlePut
    /\ IdleCluster
    /\ IdleGutter
    /\ IdleTidy
    /\ IdleExtract

SpecParseMine == InitSpecParseMine /\ [][NextParse]_vars

InitSpecParseContact ==
    /\ IdleLayout
    /\ InitParseContact
    /\ IdlePut
    /\ IdleCluster
    /\ IdleGutter
    /\ IdleTidy
    /\ IdleExtract

SpecParseContact == InitSpecParseContact /\ [][NextParse]_vars

NextTidy == TidyStart \/ TidyLine \/ TidyReturn

InitSpecTidy ==
    /\ IdleLayout
    /\ InitTidy
    /\ IdlePut
    /\ IdleCluster
    /\ IdleGutter
    /\ IdleParse
    /\ IdleExtract

SpecTidy == InitSpecTidy /\ [][NextTidy]_vars

NextPage ==
    \/ Prepare \/ ClusterStep \/ Flush \/ Emit
    \/ FindGutter \/ SplitLine \/ ReturnText
    \/ TidyCall \/ TidyStart \/ TidyLine \/ TidyReturn
    \/ ParseCall \/ ParseStart \/ WalkLine \/ CleanValues \/ AssignPending \/ Fallback
    \/ ParseReturn

InitSpecPage ==
    /\ IdleLayout
    /\ IdlePut
    /\ IdleParse
    /\ IdleTidy
    /\ IdleExtract
    /\ \/ /\ InitPage
          /\ results = <<>> /\ words = <<>> /\ med2 = 2 /\ cur = <<>>
          /\ last_y = NoY /\ ci = 1 /\ cpc = "idle" /\ pretty = <<>>
       \/ /\ InitEasy
          /\ IdleGutter

SpecPage == InitSpecPage /\ [][NextPage]_vars

NextExtract == ExtractStart \/ ExtractLine \/ ExtractReturn

NextWalks ==
    \/ TidyStart \/ TidyLine \/ TidyReturn
    \/ ParseStart \/ WalkLine \/ CleanValues \/ AssignPending \/ Fallback \/ ParseReturn
    \/ ExtractStart \/ ExtractLine \/ ExtractReturn
    \/ GenericStart \/ GenericLine \/ GenericReturn

\* one of tidy_text, parse_id_fields and GenericCardFieldExtractor.extract_fields
\* is called
InitSpecWalks ==
    /\ IdleLayout
    /\ IdlePut
    /\ IdleCluster
    /\ IdleGutter
    /\ \/ InitTidy /\ IdleParse /\ IdleExtract
       \/ InitParseWalk /\ IdleTidy /\ IdleExtract
       \/ InitGeneric /\ IdleTidy /\ IdleParse

SpecWalks == InitSpecWalks /\ [][NextWalks]_vars

NextLayout == LayoutStart \/ LayoutSeg \/ LayoutReturn

InitSpecLayout ==
    /\ InitLayout
    /\ IdlePut
    /\ IdleCluster
    /\ IdleGutter
    /\ IdleParse
    /\ IdleTidy
    /\ IdleExtract

SpecLayout == InitSpecLayout /\ [][NextLayout]_vars

InitSpecExtract ==
    /\ IdleLayout
    /\ InitExtract
    /\ IdlePut
    /\ IdleCluster
    /\ IdleGutter
    /\ IdleParse
    /\ IdleTidy

SpecExtract == InitSpecExtract /\ [][NextExtract]_vars

(***************************************************************************)
(* Claims about the TokenClusterer, checked under SpecCluster.             *)
(***************************************************************************)
\* the ids of the results whose text is not blank
TokenIds == {i \in 1..Len(results) : Strip(results[i].t) # <<>>}

\* the places <<line, position>> where token id occurs in the lines
PlacesOf(id) ==
    {<<l, k>> \in (1..Len(lines)) \X (1..MaxTokens + 1) :
        k <= Len(lines[l]) /\ lines[l][k].id = id}

\* C1: when the clusterer returns, every token with non-blank text is in
\* exactly one Line, exactly once, no Line holds anything else, and every
\* Line is in non-decreasing x1 order.
C1_EveryTokenInOneLine ==
    cpc = "done" =>
        /\ \A id \in TokenIds : Cardinality(PlacesOf(id)) = 1
        /\ \A l \in 1..Len(lines) : \A k \in 1..Len(lines[l]) :
              /\ lines[l][k].id \in TokenIds
              /\ lines[l][k] = WordOf(results[lines[l][k].id])
        /\ \A l \in 1..Len(lines) : \A k \in 1..(Len(lines[l]) - 1) :
              lines[l][k].x <= lines[l][k + 1].x

\* C1 witness: the clusterer returned two Lines, one of them with two tokens
\* that the results listed right to left.
C1_Witness ==
    /\ cpc = "done"
    /\ Len(lines) = 2
    /\ \E l \in 1..2 : /\ Len(lines[l]) = 2
                       /\ lines[l][1].id > lines[l][2].id
                       /\ lines[l][1].x < lines[l][2].x

\* |a.yCenter - b.yCenter| <= tol, with tol = 0.6 * (median token height),
\* on the doubled integers of the model
InBand(a, b) == 5 * Abs(a.yy - b.yy) <= 3 * med2

\* C2 as claimed: any two tokens of one Line have vertical centres within
\* tol = 0.6 * median height of each other.
C2_OneBand ==
    cpc = "done" =>
        \A l \in 1..Len(lines) : \A a, b \in 1..Len(lines[l]) :
            InBand(lines[l][a], lines[l][b])

\* b is the next token above a in the Line (no token of the Line in between)
YNeighbours(line, a, b) ==
    /\ line[a].yy < line[b].yy
    /\ \A c \in 1..Len(line) : ~(line[a].yy < line[c].yy /\ line[c].yy < line[b].yy)

\* C2 as amended: two tokens of one Line that are neighbours in yCenter order
\* are within tol of each other (a Line is a chain of such neighbours).
C2_NeighboursInBand ==
    cpc = "done" =>
        \A l \in 1..Len(lines) : \A a, b \in 1..Len(lines[l]) :
            YNeighbours(lines[l], a, b) => InBand(lines[l][a], lines[l][b])

\* C2 witness: a Line of three tokens on three different heights, the
\* lowest and the highest more than tol apart.
C2_Witness ==
    /\ cpc = "done"
    /\ \E l \in 1..Len(lines) :
          /\ Len(lines[l]) = 3
          /\ \E a, b, c \in 1..3 :
                /\ YNeighbours(lines[l], a, b)
                /\ YNeighbours(lines[l], b, c)
                /\ ~InBand(lines[l][a], lines[l][c])

(***************************************************************************)
(* Claims about the GutterSplitter, checked under SpecGutter.              *)
(***************************************************************************)
\* Line i as the loop reads it (sorted by x1), its text and its two sides
SortedLine(i) == SortBy(X1Less, lines[i])

IsHeaderLine(i) == is_header(WordsText(SortedLine(i)))

LeftText(i) == SideText(LeftOf(SortedLine(i), gutter4))

RightText(i) == SideText(RightOf(SortedLine(i), gutter4))

LeftOnly(i) == ~IsHeaderLine(i) /\ LeftText(i) # <<>> /\ RightText(i) = <<>>

RightOnly(i) == ~IsHeaderLine(i) /\ LeftText(i) = <<>> /\ RightText(i) # <<>>

BothSided(i) == ~IsHeaderLine(i) /\ LeftText(i) # <<>> /\ RightText(i) # <<>>

\* the Lines the loop has gone through
Processed == IF gpc \in {"loop", "done"} THEN 1..(gi - 1) ELSE {}

\* C3: for every non-header Line, the left and the right words are disjoint
\* and no more than the Line's words, and every word of the Line whose text
\* is not ':' (a word straddling the gutter included) appears in the text
\* emitted for the Line.
C3_NoTokenDropped ==
    \A i \in Processed :
        ~IsHeaderLine(i) =>
            LET ln == SortedLine(i)
                L  == {k \in 1..Len(ln) : 4 * ln[k].x2 <= gutter4}
                R  == {k \in 1..Len(ln) : 4 * ln[k].x1 > gutter4}
            IN  /\ L \cap R = {}
                /\ Cardinality(L) + Cardinality(R) <= Len(ln)
                /\ Len(out_lines) >= i
                /\ \A k \in 1..Len(ln) : ln[k].t # Colon => Contains(ln[k].t, out_lines[i])

CurSt == [fields |-> fields, extras |-> extras]

InitSt == [fields |-> EmptyMap, extras |-> EmptyMap]

\* the entity loop run over a whole list of pairs
RECURSIVE RunEnts(_, _)
RunEnts(st, es) == IF es = <<>> THEN st ELSE RunEnts(EntityStep(st, Head(es)), Tail(es))

\* a pair that reaches the merge: put does not return early on it
Reaches(e) == _norm(e[1]) # <<>> /\ e[2] # <<>>

\* the canonical key of a pair's label (None on a miss)
CanonOf(e) == NormFieldMapGet(_norm(e[1]))

CanonKeys == {STUDENT_ID_FIELD_MAP[i][2] : i \in 1..Len(STUDENT_ID_FIELD_MAP)}

\* the trimmed values put so far on canonical key K, in put order
RECURSIVE HistOf(_, _)
HistOf(K, es) ==
    IF es = <<>> THEN <<>>
    ELSE LET e == Head(es)
         IN  (IF Reaches(e) /\ CanonOf(e) = K THEN <<Strip(e[2])>> ELSE <<>>) \o HistOf(K, Tail(es))

\* index of the first occurrence of x in sequence h (x occurs in h)
FirstIdx(h, x) == CHOOSE i \in 1..Len(h) : h[i] = x /\ \A j \in 1..(i - 1) : h[j] # x

\* C6: the merge rule of put. For the pair just put, with canonical key K and
\* trimmed value v: K unset -> K = v; K a single string equal to v -> unchanged;
\* K a different single string s -> K = [s, v]; K a list -> v appended at the
\* end iff not already in the list.
C6_MergeRule ==
    [][ LET e == ents'[Len(ents')]
            K == CanonOf(e)
            v == Strip(e[2])
        IN  (Reaches(e) /\ K # None) =>
              /\ (K \notin DOMAIN fields) => fields' = SetKey(fields, K, Single(v))
              /\ (K \in DOMAIN fields /\ ~fields[K].isList /\ fields[K].items[1] = v)
                    => fields' = fields
              /\ (K \in DOMAIN fields /\ ~fields[K].isList /\ fields[K].items[1] # v)
                    => fields' = SetKey(fields, K, ListOf(<<fields[K].items[1], v>>))
              /\ (K \in DOMAIN fields /\ fields[K].isList)
                    => fields' = IF v \in Range(fields[K].items) THEN fields
                                 ELSE SetKey(fields, K, ListOf(Append(fields[K].items, v)))
      ]_vars

\* C6, the scenario of the spec: 'Bank A' then 'Bank B ' on bank_name gives the
\* two-element list of the trimmed values in that order.
C6_BankScenario ==
    LET bn == <<"b","a","n","k","_","n","a","m","e">>
        a  == <<"B","a","n","k"," ","A">>
        b  == <<"B","a","n","k"," ","B">>
    IN  ents = << <<bn, a>>, <<bn, b \o <<" ">> >> >>
            => fields = SetKey(EmptyMap, "bank_name", ListOf(<<a, b>>))

\* C7: put is idempotent. From every reachable field map and for every pair,
\* putting the pair twice leaves the same canonical fields and the same
\* unmatched bucket as putting it once.
C7_PutIdempotent ==
    \A t \in TypeLabels, m \in MentionTexts :
        EntityStep(EntityStep(CurSt, <<t, m>>), <<t, m>>) = EntityStep(CurSt, <<t, m>>)

\* C7 witness: the same pair was put twice in a row onto a key that already
\* held another value, so the first put changed the map and the second did not.
C7_Witness ==
    /\ Len(ents) = 3
    /\ ents[2] = ents[3]
    /\ Reaches(ents[3])
    /\ CanonOf(ents[3]) \in DOMAIN fields
    /\ fields[CanonOf(ents[3])].isList
    /\ RunEnts(InitSt, SubSeq(ents, 1, 1)) # RunEnts(InitSt, SubSeq(ents, 1, 2))

\* C8: every canonical key holds a single string or a list of at least two
\* pairwise-distinct strings, listed in the order in which the values first
\* appeared among the puts on that key.
C8_ShapeInvariant ==
    \A K \in DOMAIN fields :
        fields[K].isList =>
            LET l == fields[K].items
                h == HistOf(K, ents)
            IN  /\ Len(l) >= 2
                /\ \A i, j \in 1..Len(l) : i # j => l[i] # l[j]
                /\ \A i, j \in 1..Len(l) : i < j => FirstIdx(h, l[i]) < FirstIdx(h, l[j])

\* the part of C8 that the code does keep: no duplicate, never fewer than two
C8_DistinctAtLeastTwo ==
    \A K \in DOMAIN fields :
        /\ K \in CanonKeys
        /\ fields[K].isList =>
             /\ Len(fields[K].items) >= 2
             /\ \A i, j \in 1..Len(fields[K].items) : i # j => fields[K].items[i] # fields[K].items[j]

\* the set of values a field map holds under canonical key K
ValueSet(f, K) == IF K \in DOMAIN f THEN Range(f[K].items) ELSE {}

\* the sequence es reordered by the permutation p of its indices
Permuted(es, p) == [i \in 1..Len(es) |-> es[p[i]]]

\* C9: for pairs with non-empty label and non-empty mention text, every order
\* of feeding them to put yields the same set of values for each canonical key.
C9_OrderIndependent ==
    (\A i \in 1..Len(ents) : ents[i][1] # <<>> /\ ents[i][2] # <<>>) =>
        \A p \in Permutations(1..Len(ents)) :
            \A K \in CanonKeys :
                ValueSet(RunEnts(InitSt, Permuted(ents, p)).fields, K) = ValueSet(fields, K)

\* C10: every (normalised label, trimmed value) pair put under a label with no
\* canonical mapping is still held by the unmatched bucket.
C10_UnmatchedPreserved ==
    \A i \in 1..Len(ents) :
        (Reaches(ents[i]) /\ CanonOf(ents[i]) = None) =>
            /\ _norm(ents[i][1]) \in DOMAIN extras
            /\ extras[_norm(ents[i][1])] = Strip(ents[i][2])

\* C11: a put whose normalised label has no entry in the canonical table
\* leaves every canonical key and its value unchanged, whatever the label
\* (also the label 'name', which spells a canonical output name).
C11_MissKeepsFields ==
    [][ LET e == ents'[Len(ents')]
        IN  CanonOf(e) = None => fields' = fields ]_vars

\* C11 witness: the label 'name' was put on a miss while canonical fields
\* were already set: it is held by the unmatched bucket and is no canonical key.
C11_Witness ==
    /\ Len(ents) >= 2
    /\ ents[Len(ents)][1] = <<"n","a","m","e">>
    /\ Reaches(ents[Len(ents)])
    /\ CanonOf(ents[Len(ents)]) = None
    /\ DOMAIN fields # {}
    /\ "name" \notin DOMAIN fields
    /\ <<"n","a","m","e">> \in DOMAIN extras

(***************************************************************************)
(* Claims about the FieldAssembler, checked under SpecParse.                *)
(***************************************************************************)
\* line n of lines is a label line: some pattern of LABEL_RE matches it
IsLabelLine(n) == LabelAt(_clean_spaces(plines[n])) # NoLabel

\* C5: when a label line carries no same-line value, the value assigned to
\* that label comes from a non-label line after that label line and before
\* the next label line; a line that precedes the label line is never
\* assigned as its value.
C5_ValueFollowsLabel ==
    \A t \in 1..Len(taken) :
        /\ taken[t].at < taken[t].from
        /\ \A n \in (taken[t].at + 1)..taken[t].from : ~IsLabelLine(n)

(***************************************************************************)
(* Claims about the TextTidier, checked under SpecTidy.                    *)
(***************************************************************************)
\* C12: tidy_text is idempotent: tidying the returned text again gives the
\* same text.
C12_TidyIdempotent == tpc = "done" => tidy_text(tidied) = tidied

(***************************************************************************)
(* Claims about StudentIDFieldExtractor, checked under SpecExtract.        *)
(***************************************************************************)
\* the line, lower-cased and with its whitespace collapsed, starts with the
\* label 'id card' or 'student id card'
CardLabelled(ln) ==
    LET s == CollapseWs(LowerStr(Strip(ln)))
    IN  \E p \in {<<"i","d"," ","c","a","r","d">>, <<"s","t","u","d","e","n","t"," ","i","d"," ","c","a","r","d">>} :
           /\ StartsWith(p, s)
           /\ Len(s) = Len(p) \/ s[Len(p) + 1] \notin WordChars

\* the patterns of the table that match the line as _is_label applies them
MatchingPatterns(ln) ==
    {n \in 1..Len(LABEL_PATTERNS) :
        ReMatch(ReCat(<<ReBol, LABEL_PATTERNS[n].pat, ReWb>>),
                CollapseWs(LowerStr(Strip(ln))), FALSE).ok}

\* C13: in both label tables the first pattern in table order that matches a
\* line gives its key, and a line whose label is 'id card' or 'student id card'
\* is classified card_type (by LABEL_RE of id_parser whenever it finds a label
\* at all), never adm_no.
C13_CardTypeNotShadowed ==
    \A n \in 1..Len(xlines) :
        LET ln == xlines[n]
            hits == MatchingPatterns(ln)
        IN  /\ hits # {} =>
                 \E h \in hits : /\ \A o \in hits : h <= o
                                 /\ _is_label(ln) = LABEL_PATTERNS[h].key
            /\ CardLabelled(ln) =>
                 /\ _is_label(ln) = "card_type"
                 /\ LabelAt(_clean_spaces(ln)) # NoLabel =>
                        LABEL_RE[LabelAt(_clean_spaces(ln))].key = "card_type"

(***************************************************************************)
(* Claims about the FieldAssembler on cards with upper-case lines, checked *)
(* under SpecParseCard.                                                    *)
(***************************************************************************)
\* the entries of LABEL_MAP of which the line is the label and nothing else
\* (a colon after it or not)
LabelOnlyHits(ln) ==
    {n \in 1..Len(LABEL_MAP) :
        ReMatch(ReCat(<<ReBol, ReWs0, LABEL_MAP[n].pat, ReWs0, ReOpt(ReCh(":")), ReWs0, ReEol>>),
                ln, TRUE).ok}

\* C14: a line that consists only of a known label, followed by a line that is
\* no label line, gives the following line to the label; the text 'NAME' /
\* 'John Smith' gives {name: 'John Smith'}.
C14_LabelAboveValue ==
    (ppc = "done" /\ Len(ptext) = 2) =>
        LET hits == LabelOnlyHits(ptext[1])
            key == LABEL_MAP[CHOOSE n \in hits : \A h \in hits : n <= h].key
        IN  /\ (/\ hits # {}
                /\ LabelOnlyHits(ptext[2]) = {}
                /\ LabelAt(ptext[2]) = NoLabel
                /\ key = "name")
               => (key \in DOMAIN pout /\ pout[key] = Strip(ptext[2]))
            /\ (ptext = <<<<"N","A","M","E">>, <<"J","o","h","n"," ","S","m","i","t","h">>>>)
               => pout = SetKey(EmptyMap, "name", <<"J","o","h","n"," ","S","m","i","t","h">>)

\* C15: the one-line text 'DOB: 05/12/1999' gives exactly {dob: '05/12/1999'}:
\* dob is the text after the label and the colon, and there is no other key.
C15_SameLineDob ==
    (ppc = "done" /\ ptext = <<<<"D","O","B",":"," ","0","5","/","1","2","/","1","9","9","9">>>>)
        => pout = SetKey(EmptyMap, "dob", <<"0","5","/","1","2","/","1","9","9","9">>)

(***************************************************************************)
(* Claims about the page pipeline of main.py, checked under SpecPage.      *)
(***************************************************************************)
\* Line i of the page is the row of the three tokens 'Phone', ':', '555-1234'
IsPhoneRow(i) ==
    /\ Len(lines[i]) = 3
    /\ Range(lines[i]) = {W_Phone, W_Colon, W_Number}

\* the gutter is the x-centre of the ':' token of the phone row, 'Phone' lies
\* left of it and '555-1234' right of it
GutterAtColon ==
    /\ gutter4 = 2 * (W_Colon.x1 + W_Colon.x2)
    /\ W_Colon.x1 < W_Colon.x2
    /\ 4 * W_Phone.x2 <= gutter4
    /\ 4 * W_Number.x1 > gutter4

\* C16: the row 'Phone', ':', '555-1234' with the gutter at the x-centre of the
\* ':' token is emitted as exactly 'Phone : 555-1234', and from the page of that
\* one row tidy_text followed by parse_id_fields gives phone = '555-1234'.
C16_PhoneRow ==
    /\ \A i \in Processed :
          (IsPhoneRow(i) /\ GutterAtColon) => out_lines[i] = <<"P","h","o","n","e"," ",":"," ","5","5","5","-","1","2","3","4">>
    /\ (Len(lines) = 1 /\ IsPhoneRow(1)) =>
          /\ gpc = "done" => vtext = <<"P","h","o","n","e"," ",":"," ","5","5","5","-","1","2","3","4">>
          /\ ppc = "done" => ("phone" \in DOMAIN pout /\ pout["phone"] = <<"5","5","5","-","1","2","3","4">>)

\* C16 witness: the page of the one phone row has gone through the splitter,
\* tidy_text and parse_id_fields, and phone is there.
C16_Witness ==
    /\ Len(lines) = 1 /\ IsPhoneRow(1) /\ GutterAtColon
    /\ gpc = "done" /\ tpc = "done" /\ ppc = "done"
    /\ vtext = <<"P","h","o","n","e"," ",":"," ","5","5","5","-","1","2","3","4">>
    /\ "phone" \in DOMAIN pout

(***************************************************************************)
(* Claims about the labels of a student card, checked under SpecStudent.   *)
(***************************************************************************)
\* a label lower-cased, its underscores replaced by spaces, its whitespace runs
\* collapsed, and trimmed
LabelNormalForm(s) == Strip(CollapseWs(ReplaceUnderscore(LowerStr(s))))

\* C17: two labels that are equal after lower-casing, replacing '_' by a space,
\* collapsing whitespace runs and trimming have the same canonical key or are
\* both unmatched; the pairs ('student_name', 'Jane Doe'), ('student_id',
\* 'A123') give {name: 'Jane Doe', adm_no: 'A123'}.
C17_LabelSpellings ==
    /\ \A i, j \in 1..Len(ents) :
          LabelNormalForm(ents[i][1]) = LabelNormalForm(ents[j][1])
             => CanonOf(ents[i]) = CanonOf(ents[j])
    /\ ents = <<<<<<"s","t","u","d","e","n","t","_","n","a","m","e">>, <<"J","a","n","e"," ","D","o","e">>>>, <<<<"s","t","u","d","e","n","t","_","i","d">>, <<"A","1","2","3">>>>>>
          => /\ DOMAIN fields = {"name", "adm_no"}
             /\ fields["name"] = Single(<<"J","a","n","e"," ","D","o","e">>)
             /\ fields["adm_no"] = Single(<<"A","1","2","3">>)
             /\ extras = EmptyMap

\* the position of the first label line of the document (Len + 1: none)
FirstLabelLine ==
    LET hits == {n \in 1..Len(plines) : LabelAt(_clean_spaces(plines[n])) # NoLabel}
    IN  IF hits = {} THEN Len(plines) + 1 ELSE CHOOSE n \in hits : \A h \in hits : n <= h

\* the all-caps lines before the first label line, joined
CapsBeforeLabels == JoinSp(SelectSeq(SubSeq(plines, 1, FirstLabelLine - 1), IsUpperStr))

\* C18: the school value that the header sweep backfills is made of all-caps
\* lines that stand before the first label line only; no line at or after the
\* first label line is part of it.
C18_HeaderBeforeLabels ==
    (ppc = "walk" /\ pidx = 1 /\ "school" \in DOMAIN pout)
        => Contains(pout["school"], CapsBeforeLabels)

\* the text holds the word SCHOOL, COLLEGE or UNIVERSITY
HasSchoolWord(s) ==
    ReSearch(ReCat(<<ReWb, ReAlt(<<ReLit(<<"S","C","H","O","O","L">>), ReLit(<<"C","O","L","L","E","G","E">>), ReLit(<<"U","N","I","V","E","R","S","I","T","Y">>)>>),
                     ReWb>>), s, TRUE).ok

\* C19: in parse_id_fields and in StudentIDFieldExtractor.extract_fields, when
\* no label line sets school, a school in the returned map comes from a header
\* that holds the word SCHOOL, COLLEGE or UNIVERSITY; a header without these
\* words leaves school absent.
C19_SchoolWordNeeded ==
    /\ (/\ ppc = "done"
        /\ \A n \in 1..Len(plines) :
              LET l == LabelAt(_clean_spaces(plines[n]))
              IN  l = NoLabel \/ LABEL_RE[l].key # "school")
          => ("school" \in DOMAIN pout => HasSchoolWord(pout["school"]))
    /\ (/\ xpc = "done"
        /\ \A n \in 1..Len(xlines) : _is_label(xlines[n]) # "school")
          => ("school" \in DOMAIN xout => HasSchoolWord(xout["school"]))

\* C20: a dob in the map that parse_id_fields returns is date-shaped (it holds a
\* match of the date pattern), whether it came from the label's own line, from
\* a following line or from the search of the whole text.
C20_DobDateShaped ==
    (ppc = "done" /\ "dob" \in DOMAIN pout)
        => ReSearch(_DATE_RE, pout["dob"], FALSE).ok

(***************************************************************************)
(* Claims about the fallback of the FieldAssembler, checked under          *)
(* SpecParseMine.                                                          *)
(***************************************************************************)
\* C21: the fallback step writes only keys that are absent when it starts: a
\* key the label walk has set (email, website, dob, adm_no or any other) has
\* the same value after the step.
C21_FallbackKeepsSetKeys ==
    [][ (ppc = "pending" /\ ppc' = "final")
           => \A k \in DOMAIN pout : k \in DOMAIN pout' /\ pout'[k] = pout[k] ]_vars

\* C21 witness: the fallback has run on a text whose first date is not the one
\* the dob label carries; dob is still the label's value, and email, which the
\* walk had not set, has been mined.
C21_Witness ==
    /\ ppc = "final"
    /\ plines = <<<<"x","@","y",".","o","r","g">>, <<"0","5","/","1","2","/","1","9","9","9">>, <<"D","O","B"," ",":"," ","1","/","2","/","2","0","0","0">>>>
    /\ "dob" \in DOMAIN pout /\ pout["dob"] = <<"1","/","2","/","2","0","0","0">>
    /\ "email" \in DOMAIN pout /\ pout["email"] = <<"x","@","y",".","o","r","g">>

(***************************************************************************)
(* Claims about phone numbers and websites in the FieldAssembler, checked  *)
(* under SpecParseContact.                                                 *)
(***************************************************************************)
\* C22: a digit run that the document writes with a leading '+' is not given
\* to adm_no by the fallback: the value of adm_no stands nowhere in the text
\* right after a '+'.
C22_PlusRunRejected ==
    (ppc = "done" /\ "adm_no" \in DOMAIN pout)
        => ~Contains(<<"+">> \o pout["adm_no"], JoinSp(plines))

\* C23: a website written 'www example.com' or 'WWW example.com', on the line
\* of the website label or on the line after it, is returned as
\* 'www.example.com', with one dot after 'www'; scheme and domain are in lower
\* case and the path keeps its case.
C23_WwwOneDot ==
    ppc = "done" =>
        /\ ptext \in {<<<<"W","e","b","s","i","t","e"," ",":"," ","w","w","w"," ","e","x","a","m","p","l","e",".","c","o","m">>>>, <<<<"W","e","b","s","i","t","e"," ",":">>, <<"W","W","W"," ","e","x","a","m","p","l","e",".","c","o","m">>>>}
              => ("website" \in DOMAIN pout /\ pout["website"] = <<"w","w","w",".","e","x","a","m","p","l","e",".","c","o","m">>)
        /\ ptext = <<<<"W","e","b","s","i","t","e"," ",":">>, <<"H","T","T","P","S",":","/","/","W","W","W",".","S","i","t","e",".","o","r","g","/","P","a","t","h">>>>
              => ("website" \in DOMAIN pout /\ pout["website"] = <<"h","t","t","p","s",":","/","/","w","w","w",".","s","i","t","e",".","o","r","g","/","P","a","t","h">>)

\* a text of white space only (the empty text included)
IsBlankText(s) == \A n \in 1..Len(s) : s[n] \in WS

\* C24 (InputEmpty): with no tokens, or tokens of white space only, easyocr_pretty
\* returns "" and builds no Line; with no words _vision_lines_with_gutter
\* returns "" and emits no line; tidy_text of an empty or blank text is "";
\* parse_id_fields of an empty or blank text is the empty map.
C24_EmptyInput ==
    /\ (cpc = "done" /\ \A n \in 1..Len(results) : IsBlankText(results[n].t))
           => (pretty = <<>> /\ lines = <<>>)
    /\ (gpc = "done" /\ lines = <<>>) => (vtext = <<>> /\ out_lines = <<>>)
    /\ (tpc = "done" /\ IsBlankText(ttext)) => tidied = <<>>
    /\ (ppc = "done" /\ \A n \in 1..Len(ptext) : IsBlankText(ptext[n]))
           => pout = EmptyMap

\* results of white space only went through easyocr_pretty, tidy_text and
\* parse_id_fields
C24_Witness ==
    /\ results # <<>>
    /\ \A n \in 1..Len(results) : IsBlankText(results[n].t)
    /\ cpc = "done" /\ pretty = <<>>
    /\ tpc = "done" /\ ttext = <<>> /\ tidied = <<>>
    /\ ppc = "done" /\ ptext = <<>> /\ pout = EmptyMap

\* the characters of the document text that the first n segments cover, in
\* segment order: for a segment with start < end the characters numbered
\* start .. end - 1 (from 0) that the text has
RECURSIVE CoveredChars(_)
CoveredChars(n) ==
    IF n = 0 THEN <<>>
    ELSE LET a == segs[n].start_index
             b == IF segs[n].end_index < Len(dtext) THEN segs[n].end_index ELSE Len(dtext)
         IN  CoveredChars(n - 1) \o (IF a < b THEN [k \in 1..(b - a) |-> dtext[a + k]] ELSE <<>>)

\* C25 (MalformedSpan): _layout_text returns "" when the layout or its text
\* anchor is missing; otherwise it returns, trimmed, the concatenation in segment
\* order of text[start:end], where a segment with end <= start adds nothing and a
\* segment that reaches past the end of the text is clipped to the text.
C25_SpanResolved ==
    lpc = "done" =>
        /\ layout # "anchor" => span = <<>>
        /\ layout = "anchor" => span = Strip(CoveredChars(Len(segs)))
        /\ (\A n \in 1..Len(segs) : segs[n].end_index <= segs[n].start_index) => span = <<>>

\* a span of one segment that reaches past the end of the text and one with
\* end <= start was resolved to a text
C25_Witness ==
    /\ lpc = "done"
    /\ layout = "anchor"
    /\ dtext = DocText
    /\ \E n \in 1..Len(segs) :
          segs[n].start_index < Len(dtext) /\ segs[n].end_index > Len(dtext)
    /\ \E n \in 1..Len(segs) : segs[n].end_index <= segs[n].start_index
    /\ span # <<>>

\* a turn of one of the four line walks moves its index forward, and not
\* further than two places past the last line
WalkAdvances ==
    /\ (tpc = "loop" /\ tpc' = "loop" /\ tiVars' # tiVars)
           => (ti' > ti /\ ti' <= Len(tlines) + 2)
    /\ (ppc = "walk" /\ ppc' = "walk" /\ paVars' # paVars)
           => (pidx' > pidx /\ pidx' <= Len(plines) + 1)
    /\ (xpc = "walk" /\ xpc' = "walk" /\ exVars' # exVars)
           => (xi' > xi /\ xi' <= Len(xlines) + 1)
    /\ (xpc = "generic" /\ xpc' = "generic" /\ exVars' # exVars)
           => (xi' > xi /\ xi' <= Len(xlines) + 1)

\* C26 (termination): every turn of the line walks of tidy_text, parse_id_fields,
\* StudentIDFieldExtractor.extract_fields and
\* GenericCardFieldExtractor.extract_fields strictly advances the walk's line
\* index (also when lines are merged, skipped or taken as values) and keeps it
\* within a fixed distance of the number of lines, so a walk over n lines makes
\* at most n turns and never comes back to a line.
C26_WalksTerminate == [][WalkAdvances]_vars

\* the generic walk took the line after 'Memo :' as its value, stepped over
\* both lines and returned
C26_Witness ==
    /\ xpc = "returned"
    /\ xtext = <<<<"M","e","m","o"," ",":">>, <<"J","o","h","n">>>>
    /\ xi = 3
    /\ gfields = SetKey(EmptyMap, <<"m","e","m","o">>, <<"J","o","h","n">>)

\* how many ':' characters a text has
ColonCount(s) == Cardinality({n \in 1..Len(s) : s[n] = ":"})

\* C27: for a non-header Line with both sides non-empty whose right side is not
\* an identification phrase, the emitted line has exactly one ':' between the
\* label text and the value text, on whichever side of the gutter the Line's own
\* ':' token lies.
C27_OneColon ==
    \A i \in Processed :
        (BothSided(i) /\ ~IsIdPhrase(RightText(i))) => ColonCount(out_lines[i]) = 1

\* Line i is a label alone, left of the gutter
LabelAlone(i) ==
    /\ LeftText(i) # <<>>
    /\ RightText(i) = <<>>
    /\ LeftText(i) = WordsText(SortedLine(i))
    /\ _is_label(LeftText(i)) # ""

\* C28: a Line that is a label alone left of the gutter, in any spelling ('Name'
\* or 'NAME'), followed by a Line with only a right side R, gives the emitted line
\* '<label> : R'; the header test does not take the label Line and clear the
\* carry.
C28_CarryAnySpelling ==
    \A i \in Processed :
        (i > 1 /\ LabelAlone(i - 1) /\ RightOnly(i))
            => out_lines[i] = LeftText(i - 1) \o SepColon \o RightText(i)

\* C29: tidy_text joins a line that starts with ':' followed by text to the
\* line before it ('Name' then ': John' gives 'Name : John'), and joins a line
\* that is exactly ':' together with the line after it to the line before it.
C29_ColonLineRepaired ==
    tpc = "done" =>
        /\ (Len(tlines) = 2 /\ ColonCount(tlines[1]) = 0
               /\ Len(tlines[2]) > 1 /\ Head(tlines[2]) = ":")
              => tidied = tlines[1] \o SepColon \o Strip(Tail(tlines[2]))
        /\ (Len(tlines) = 3 /\ ColonCount(tlines[1]) = 0 /\ tlines[2] = Colon)
              => tidied = tlines[1] \o SepColon \o tlines[3]

====
